---- MODULE Spec2Model ----
(***************************************************************************)
(* Transliteration engine of shrine-label-generator: tokiponizer.py,       *)
(* koreanizer.py and generate_multilang_quickstatements.py.                *)
(*                                                                         *)
(* A string is a sequence of Unicode code points (Python's ord), so that   *)
(* the code-point arithmetic of the sources (katakana - 0x60, Hangul       *)
(* block + 4) is the arithmetic of the model.  Indices into strings are    *)
(* 0-based as in the sources; Slice gives Python's text[i:i+size].         *)
(***************************************************************************)
EXTENDS Integers, Sequences, FiniteSets, TLC

VARIABLES
  fn,      \* the function being called
  arg,     \* its argument(s)
  pc,      \* position inside the function
  text,    \* the local `text` (or `w`, `name`)
  i,       \* the scan index of a while loop
  tokens,  \* the local `tokens`
  parts,   \* the rendered items (syllables, hangul_parts, parts)
  acc,     \* the list a loop builds (merged, words)
  out      \* the returned value, once pc = "done"

vars == <<fn, arg, pc, text, i, tokens, parts, acc, out>>

\* ------------------------------------------------------------------------
\* Strings
\* ------------------------------------------------------------------------

\* ord() of the ASCII letters used in literals
Ord ==
  ("a" :> 97) @@ ("b" :> 98) @@ ("c" :> 99) @@ ("d" :> 100) @@ ("e" :> 101) @@
  ("f" :> 102) @@ ("g" :> 103) @@ ("h" :> 104) @@ ("i" :> 105) @@ ("j" :> 106) @@
  ("k" :> 107) @@ ("l" :> 108) @@ ("m" :> 109) @@ ("n" :> 110) @@ ("o" :> 111) @@
  ("p" :> 112) @@ ("q" :> 113) @@ ("r" :> 114) @@ ("s" :> 115) @@ ("t" :> 116) @@
  ("u" :> 117) @@ ("v" :> 118) @@ ("w" :> 119) @@ ("x" :> 120) @@ ("y" :> 121) @@
  ("z" :> 122) @@ (" " :> 32) @@ ("-" :> 45) @@ ("_" :> 95) @@
  ("A" :> 65) @@ ("C" :> 67) @@ ("G" :> 71) @@ ("K" :> 75) @@ ("S" :> 83) @@
  ("V" :> 86) @@ ("W" :> 87)

\* the string whose characters are the one-letter strings of the tuple t
S(t) == [k \in 1..Len(t) |-> Ord[t[k]]]

\* every string over alphabet of length at most n
Strings(alphabet, n) == UNION {[1..k -> alphabet] : k \in 0..n}

Min(a, b) == IF a < b THEN a ELSE b

\* Python text[i:i+size], i 0-based
Slice(t, from, size) == SubSeq(t, from + 1, Min(from + size, Len(t)))

\* Python text[i:], i 0-based
From(t, from) == SubSeq(t, from + 1, Len(t))

RECURSIVE Concat(_)
\* "".join(list)
Concat(list) == IF list = <<>> THEN <<>> ELSE Head(list) \o Concat(Tail(list))

RECURSIVE JoinWith(_, _)
\* sep.join(list)
JoinWith(sep, list) ==
  IF list = <<>> THEN <<>>
  ELSE IF Len(list) = 1 THEN list[1]
  ELSE list[1] \o sep \o JoinWith(sep, Tail(list))

\* s.replace(a, b) for single characters a, b
ReplaceChar(s, a, b) == [k \in 1..Len(s) |-> IF s[k] = a THEN b ELSE s[k]]

\* ------------------------------------------------------------------------
\* The library functions the sources call (unicodedata, str, re), on the
\* blocks the names are written in: ASCII, the macron vowels, fullwidth
\* ASCII, Cyrillic, kana, Hangul, the combining macron and (semi-)voiced
\* marks.
\* ------------------------------------------------------------------------

MACRON_UPPER == {256, 274, 298, 332, 362}   \* U+0100 U+0112 U+012A U+014C U+016A
MACRON_LOWER == {257, 275, 299, 333, 363}   \* U+0101 U+0113 U+012B U+014D U+016B
COMBINING_MACRON == 772                     \* U+0304, combining class 230
VOICED_MARK == 12441                        \* U+3099, combining class 8
SEMI_VOICED_MARK == 12442                   \* U+309A, combining class 8

\* the plain vowel of a macron vowel (either case keeps its case)
MacronBase(c) ==
  CASE c \in {256, 257} -> 65 + 32 * (c - 256)
    [] c \in {274, 275} -> 69 + 32 * (c - 274)
    [] c \in {298, 299} -> 73 + 32 * (c - 298)
    [] c \in {332, 333} -> 79 + 32 * (c - 332)
    [] c \in {362, 363} -> 85 + 32 * (c - 362)

\* the macron vowel of a plain vowel, 0 when there is none
MacronOf(c) ==
  CASE c = 65 -> 256 [] c = 97 -> 257 [] c = 69 -> 274 [] c = 101 -> 275
    [] c = 73 -> 298 [] c = 105 -> 299 [] c = 79 -> 332 [] c = 111 -> 333
    [] c = 85 -> 362 [] c = 117 -> 363 [] OTHER -> 0

\* kana that take the voiced mark (k, s, t and h rows, hiragana and katakana)
VOICEABLE ==
  {12363 + 2 * k : k \in 0..11} \cup {12388, 12390, 12392} \cup {12399 + 3 * k : k \in 0..4}
  \cup {12459 + 2 * k : k \in 0..11} \cup {12484, 12486, 12488} \cup {12495 + 3 * k : k \in 0..4}
\* kana of the h row, which also take the semi-voiced mark
SEMI_VOICEABLE == {12399 + 3 * k : k \in 0..4} \cup {12495 + 3 * k : k \in 0..4}

\* Hangul syllable arithmetic of the Unicode standard
SBase == 44032   \* U+AC00
LBase == 4352    \* U+1100
VBase == 4449    \* U+1161
TBase == 4519    \* U+11A7
LCount == 19
VCount == 21
TCount == 28
SCount == 11172

IsHangulSyllable(c) == c >= SBase /\ c < SBase + SCount

\* canonical combining class
CCC(c) ==
  CASE c = COMBINING_MACRON -> 230
    [] c \in {VOICED_MARK, SEMI_VOICED_MARK} -> 8
    [] OTHER -> 0

\* full compatibility decomposition of one character
Decompose(c) ==
  CASE c \in MACRON_UPPER \cup MACRON_LOWER -> <<MacronBase(c), COMBINING_MACRON>>
    [] c >= 65281 /\ c <= 65374 -> <<c - 65248>>            \* fullwidth ASCII
    [] c - 1 \in VOICEABLE -> <<c - 1, VOICED_MARK>>
    [] c - 2 \in SEMI_VOICEABLE -> <<c - 2, SEMI_VOICED_MARK>>
    [] IsHangulSyllable(c) ->
         LET s == c - SBase
             l == LBase + s \div (VCount * TCount)
             v == VBase + (s % (VCount * TCount)) \div TCount
             t == TBase + (s % TCount)
         IN IF t = TBase THEN <<l, v>> ELSE <<l, v, t>>
    [] OTHER -> <<c>>

\* the primary composite of a starter and a following character, 0 when none
Composite(a, b) ==
  CASE b = COMBINING_MACRON -> MacronOf(a)
    [] b = VOICED_MARK /\ a \in VOICEABLE -> a + 1
    [] b = SEMI_VOICED_MARK /\ a \in SEMI_VOICEABLE -> a + 2
    [] a >= LBase /\ a < LBase + LCount /\ b >= VBase /\ b < VBase + VCount ->
         SBase + ((a - LBase) * VCount + (b - VBase)) * TCount
    [] IsHangulSyllable(a) /\ (a - SBase) % TCount = 0 /\ b > TBase /\ b < TBase + TCount ->
         a + (b - TBase)
    [] OTHER -> 0

RECURSIVE CanonicalOrder(_)
\* marks of a run sorted by combining class, stably
CanonicalOrder(s) ==
  LET bad == {k \in 1..(Len(s) - 1) : CCC(s[k + 1]) > 0 /\ CCC(s[k]) > CCC(s[k + 1])}
  IN IF bad = {} THEN s
     ELSE LET k == CHOOSE x \in bad : \A y \in bad : x <= y
          IN CanonicalOrder([j \in 1..Len(s) |->
               IF j = k THEN s[k + 1] ELSE IF j = k + 1 THEN s[k] ELSE s[j]])

RECURSIVE ComposeFrom(_, _, _, _, _)
\* canonical composition: res so far, position of its last starter (0: none),
\* class of the last character appended
ComposeFrom(s, k, res, starter, lastClass) ==
  IF k > Len(s) THEN res
  ELSE LET ch == s[k]
           cls == CCC(ch)
           comp == IF starter = 0 THEN 0 ELSE Composite(res[starter], ch)
       IN IF comp # 0 /\ (lastClass < cls \/ lastClass = 0)
          THEN ComposeFrom(s, k + 1, [res EXCEPT ![starter] = comp], starter, lastClass)
          ELSE ComposeFrom(s, k + 1, Append(res, ch),
                           IF cls = 0 THEN Len(res) + 1 ELSE starter, cls)

\* unicodedata.normalize("NFKC", s)
NFKC(s) ==
  ComposeFrom(CanonicalOrder(Concat([k \in 1..Len(s) |-> Decompose(s[k])])), 1, <<>>, 0, 0)

\* str.lower() of one character
LowerChar(c) ==
  CASE c >= 65 /\ c <= 90 -> c + 32          \* A-Z
    [] c \in MACRON_UPPER -> c + 1
    [] c \in {268, 352, 381} -> c + 1        \* U+010C, U+0160, U+017D
    [] c >= 1040 /\ c <= 1071 -> c + 32      \* U+0410..U+042F
    [] c >= 1024 /\ c <= 1039 -> c + 80      \* U+0400..U+040F
    [] OTHER -> c

\* str.upper() of one character
UpperChar(c) ==
  CASE c >= 97 /\ c <= 122 -> c - 32
    [] c \in MACRON_LOWER -> c - 1
    [] c >= 1072 /\ c <= 1103 -> c - 32      \* U+0430..U+044F
    [] c >= 1104 /\ c <= 1119 -> c - 80      \* U+0450..U+045F
    [] OTHER -> c

\* str.lower()
Lower(s) == [k \in 1..Len(s) |-> LowerChar(s[k])]

\* str.capitalize(): first character upper-cased, the rest lower-cased
Capitalize(s) == [k \in 1..Len(s) |-> IF k = 1 THEN UpperChar(s[k]) ELSE LowerChar(s[k])]

\* re \w on str: alphanumeric or underscore
IsWord(c) ==
  \/ (c >= 48 /\ c <= 57) \/ (c >= 65 /\ c <= 90) \/ (c >= 97 /\ c <= 122) \/ c = 95
  \/ (c >= 192 /\ c <= 591 /\ c \notin {215, 247})   \* Latin letters U+00C0..U+024F
  \/ (c >= 1024 /\ c <= 1153)                         \* Cyrillic letters
  \/ (c >= 1568 /\ c <= 1610)                         \* Arabic letters
  \/ (c >= 2308 /\ c <= 2361)                         \* Devanagari letters
  \/ (c >= 4352 /\ c <= 4607)                         \* Hangul jamo
  \/ (c >= 12353 /\ c <= 12438)                       \* hiragana
  \/ (c >= 12449 /\ c <= 12538)                       \* katakana
  \/ (c >= 12540 /\ c <= 12543)                       \* prolonged sound mark, iteration marks
  \/ (c >= 12593 /\ c <= 12686)                       \* Hangul compatibility jamo
  \/ (c >= 19968 /\ c <= 40959)                       \* CJK ideographs
  \/ IsHangulSyllable(c)

\* str.isspace()
IsSpace(c) == c \in {32, 9, 10, 12288}

\* ------------------------------------------------------------------------
\* The rule tables
\* ------------------------------------------------------------------------

\* tokiponizer.py KANA_ROMAJI: kana (1 or 2 characters) -> romaji
KANA_ROMAJI ==
  (<<12354>> :> <<97>>) @@  \* U+3042 -> a
  (<<12356>> :> <<105>>) @@  \* U+3044 -> i
  (<<12358>> :> <<117>>) @@  \* U+3046 -> u
  (<<12360>> :> <<101>>) @@  \* U+3048 -> e
  (<<12362>> :> <<111>>) @@  \* U+304A -> o
  (<<12363>> :> <<107, 97>>) @@  \* U+304B -> ka
  (<<12365>> :> <<107, 105>>) @@  \* U+304D -> ki
  (<<12367>> :> <<107, 117>>) @@  \* U+304F -> ku
  (<<12369>> :> <<107, 101>>) @@  \* U+3051 -> ke
  (<<12371>> :> <<107, 111>>) @@  \* U+3053 -> ko
  (<<12365, 12419>> :> <<107, 121, 97>>) @@  \* U+304D+U+3083 -> kya
  (<<12365, 12421>> :> <<107, 121, 117>>) @@  \* U+304D+U+3085 -> kyu
  (<<12365, 12423>> :> <<107, 121, 111>>) @@  \* U+304D+U+3087 -> kyo
  (<<12373>> :> <<115, 97>>) @@  \* U+3055 -> sa
  (<<12375>> :> <<115, 104, 105>>) @@  \* U+3057 -> shi
  (<<12377>> :> <<115, 117>>) @@  \* U+3059 -> su
  (<<12379>> :> <<115, 101>>) @@  \* U+305B -> se
  (<<12381>> :> <<115, 111>>) @@  \* U+305D -> so
  (<<12375, 12419>> :> <<115, 104, 97>>) @@  \* U+3057+U+3083 -> sha
  (<<12375, 12421>> :> <<115, 104, 117>>) @@  \* U+3057+U+3085 -> shu
  (<<12375, 12423>> :> <<115, 104, 111>>) @@  \* U+3057+U+3087 -> sho
  (<<12383>> :> <<116, 97>>) @@  \* U+305F -> ta
  (<<12385>> :> <<99, 104, 105>>) @@  \* U+3061 -> chi
  (<<12388>> :> <<116, 115, 117>>) @@  \* U+3064 -> tsu
  (<<12390>> :> <<116, 101>>) @@  \* U+3066 -> te
  (<<12392>> :> <<116, 111>>) @@  \* U+3068 -> to
  (<<12385, 12419>> :> <<99, 104, 97>>) @@  \* U+3061+U+3083 -> cha
  (<<12385, 12421>> :> <<99, 104, 117>>) @@  \* U+3061+U+3085 -> chu
  (<<12385, 12423>> :> <<99, 104, 111>>) @@  \* U+3061+U+3087 -> cho
  (<<12394>> :> <<110, 97>>) @@  \* U+306A -> na
  (<<12395>> :> <<110, 105>>) @@  \* U+306B -> ni
  (<<12396>> :> <<110, 117>>) @@  \* U+306C -> nu
  (<<12397>> :> <<110, 101>>) @@  \* U+306D -> ne
  (<<12398>> :> <<110, 111>>) @@  \* U+306E -> no
  (<<12395, 12419>> :> <<110, 121, 97>>) @@  \* U+306B+U+3083 -> nya
  (<<12395, 12421>> :> <<110, 121, 117>>) @@  \* U+306B+U+3085 -> nyu
  (<<12395, 12423>> :> <<110, 121, 111>>) @@  \* U+306B+U+3087 -> nyo
  (<<12399>> :> <<104, 97>>) @@  \* U+306F -> ha
  (<<12402>> :> <<104, 105>>) @@  \* U+3072 -> hi
  (<<12405>> :> <<102, 117>>) @@  \* U+3075 -> fu
  (<<12408>> :> <<104, 101>>) @@  \* U+3078 -> he
  (<<12411>> :> <<104, 111>>) @@  \* U+307B -> ho
  (<<12402, 12419>> :> <<104, 121, 97>>) @@  \* U+3072+U+3083 -> hya
  (<<12402, 12421>> :> <<104, 121, 117>>) @@  \* U+3072+U+3085 -> hyu
  (<<12402, 12423>> :> <<104, 121, 111>>) @@  \* U+3072+U+3087 -> hyo
  (<<12414>> :> <<109, 97>>) @@  \* U+307E -> ma
  (<<12415>> :> <<109, 105>>) @@  \* U+307F -> mi
  (<<12416>> :> <<109, 117>>) @@  \* U+3080 -> mu
  (<<12417>> :> <<109, 101>>) @@  \* U+3081 -> me
  (<<12418>> :> <<109, 111>>) @@  \* U+3082 -> mo
  (<<12415, 12419>> :> <<109, 121, 97>>) @@  \* U+307F+U+3083 -> mya
  (<<12415, 12421>> :> <<109, 121, 117>>) @@  \* U+307F+U+3085 -> myu
  (<<12415, 12423>> :> <<109, 121, 111>>) @@  \* U+307F+U+3087 -> myo
  (<<12420>> :> <<121, 97>>) @@  \* U+3084 -> ya
  (<<12422>> :> <<121, 117>>) @@  \* U+3086 -> yu
  (<<12424>> :> <<121, 111>>) @@  \* U+3088 -> yo
  (<<12425>> :> <<114, 97>>) @@  \* U+3089 -> ra
  (<<12426>> :> <<114, 105>>) @@  \* U+308A -> ri
  (<<12427>> :> <<114, 117>>) @@  \* U+308B -> ru
  (<<12428>> :> <<114, 101>>) @@  \* U+308C -> re
  (<<12429>> :> <<114, 111>>) @@  \* U+308D -> ro
  (<<12426, 12419>> :> <<114, 121, 97>>) @@  \* U+308A+U+3083 -> rya
  (<<12426, 12421>> :> <<114, 121, 117>>) @@  \* U+308A+U+3085 -> ryu
  (<<12426, 12423>> :> <<114, 121, 111>>) @@  \* U+308A+U+3087 -> ryo
  (<<12431>> :> <<119, 97>>) @@  \* U+308F -> wa
  (<<12434>> :> <<119, 111>>) @@  \* U+3092 -> wo
  (<<12435>> :> <<110>>) @@  \* U+3093 -> n
  (<<12364>> :> <<103, 97>>) @@  \* U+304C -> ga
  (<<12366>> :> <<103, 105>>) @@  \* U+304E -> gi
  (<<12368>> :> <<103, 117>>) @@  \* U+3050 -> gu
  (<<12370>> :> <<103, 101>>) @@  \* U+3052 -> ge
  (<<12372>> :> <<103, 111>>) @@  \* U+3054 -> go
  (<<12366, 12419>> :> <<103, 121, 97>>) @@  \* U+304E+U+3083 -> gya
  (<<12366, 12421>> :> <<103, 121, 117>>) @@  \* U+304E+U+3085 -> gyu
  (<<12366, 12423>> :> <<103, 121, 111>>) @@  \* U+304E+U+3087 -> gyo
  (<<12374>> :> <<122, 97>>) @@  \* U+3056 -> za
  (<<12376>> :> <<106, 105>>) @@  \* U+3058 -> ji
  (<<12378>> :> <<115, 117>>) @@  \* U+305A -> su
  (<<12380>> :> <<122, 101>>) @@  \* U+305C -> ze
  (<<12382>> :> <<122, 111>>) @@  \* U+305E -> zo
  (<<12376, 12419>> :> <<106, 97>>) @@  \* U+3058+U+3083 -> ja
  (<<12376, 12421>> :> <<106, 117>>) @@  \* U+3058+U+3085 -> ju
  (<<12376, 12423>> :> <<106, 111>>) @@  \* U+3058+U+3087 -> jo
  (<<12384>> :> <<100, 97>>) @@  \* U+3060 -> da
  (<<12386>> :> <<106, 105>>) @@  \* U+3062 -> ji
  (<<12389>> :> <<116, 117>>) @@  \* U+3065 -> tu
  (<<12391>> :> <<100, 101>>) @@  \* U+3067 -> de
  (<<12393>> :> <<100, 111>>) @@  \* U+3069 -> do
  (<<12386, 12419>> :> <<106, 97>>) @@  \* U+3062+U+3083 -> ja
  (<<12386, 12421>> :> <<106, 117>>) @@  \* U+3062+U+3085 -> ju
  (<<12386, 12423>> :> <<106, 111>>) @@  \* U+3062+U+3087 -> jo
  (<<12400>> :> <<98, 97>>) @@  \* U+3070 -> ba
  (<<12403>> :> <<98, 105>>) @@  \* U+3073 -> bi
  (<<12406>> :> <<98, 117>>) @@  \* U+3076 -> bu
  (<<12409>> :> <<98, 101>>) @@  \* U+3079 -> be
  (<<12412>> :> <<98, 111>>) @@  \* U+307C -> bo
  (<<12403, 12419>> :> <<98, 121, 97>>) @@  \* U+3073+U+3083 -> bya
  (<<12403, 12421>> :> <<98, 121, 117>>) @@  \* U+3073+U+3085 -> byu
  (<<12403, 12423>> :> <<98, 121, 111>>) @@  \* U+3073+U+3087 -> byo
  (<<12401>> :> <<112, 97>>) @@  \* U+3071 -> pa
  (<<12404>> :> <<112, 105>>) @@  \* U+3074 -> pi
  (<<12407>> :> <<112, 117>>) @@  \* U+3077 -> pu
  (<<12410>> :> <<112, 101>>) @@  \* U+307A -> pe
  (<<12413>> :> <<112, 111>>) @@  \* U+307D -> po
  (<<12404, 12419>> :> <<112, 121, 97>>) @@  \* U+3074+U+3083 -> pya
  (<<12404, 12421>> :> <<112, 121, 117>>) @@  \* U+3074+U+3085 -> pyu
  (<<12404, 12423>> :> <<112, 121, 111>>)  \* U+3074+U+3087 -> pyo

\* tokiponizer.py BASE_MAP, lines 72-85: vowels, macron vowels, unvoiced rows, n
BASE_PLAIN ==
  (<<97>> :> <<97>>) @@  \* a -> a
  (<<105>> :> <<105>>) @@  \* i -> i
  (<<117>> :> <<117>>) @@  \* u -> u
  (<<101>> :> <<101>>) @@  \* e -> e
  (<<111>> :> <<111>>) @@  \* o -> o
  (<<257>> :> <<97>>) @@  \* U+0101 -> a
  (<<299>> :> <<105>>) @@  \* U+012B -> i
  (<<363>> :> <<117>>) @@  \* U+016B -> u
  (<<275>> :> <<101>>) @@  \* U+0113 -> e
  (<<333>> :> <<111>>) @@  \* U+014D -> o
  (<<107, 97>> :> <<107, 97>>) @@  \* ka -> ka
  (<<107, 105>> :> <<107, 105>>) @@  \* ki -> ki
  (<<107, 117>> :> <<107, 117>>) @@  \* ku -> ku
  (<<107, 101>> :> <<107, 101>>) @@  \* ke -> ke
  (<<107, 111>> :> <<107, 111>>) @@  \* ko -> ko
  (<<115, 97>> :> <<115, 97>>) @@  \* sa -> sa
  (<<115, 104, 105>> :> <<115, 105>>) @@  \* shi -> si
  (<<115, 117>> :> <<115, 117>>) @@  \* su -> su
  (<<115, 101>> :> <<115, 101>>) @@  \* se -> se
  (<<115, 111>> :> <<115, 111>>) @@  \* so -> so
  (<<116, 97>> :> <<116, 97>>) @@  \* ta -> ta
  (<<99, 104, 105>> :> <<115, 105>>) @@  \* chi -> si
  (<<116, 115, 117>> :> <<116, 117>>) @@  \* tsu -> tu
  (<<116, 117>> :> <<116, 117>>) @@  \* tu -> tu
  (<<116, 101>> :> <<116, 101>>) @@  \* te -> te
  (<<116, 111>> :> <<116, 111>>) @@  \* to -> to
  (<<110, 97>> :> <<110, 97>>) @@  \* na -> na
  (<<110, 105>> :> <<110, 105>>) @@  \* ni -> ni
  (<<110, 117>> :> <<110, 117>>) @@  \* nu -> nu
  (<<110, 101>> :> <<110, 101>>) @@  \* ne -> ne
  (<<110, 111>> :> <<110, 111>>) @@  \* no -> no
  (<<109, 97>> :> <<109, 97>>) @@  \* ma -> ma
  (<<109, 105>> :> <<109, 105>>) @@  \* mi -> mi
  (<<109, 117>> :> <<109, 117>>) @@  \* mu -> mu
  (<<109, 101>> :> <<109, 101>>) @@  \* me -> me
  (<<109, 111>> :> <<109, 111>>) @@  \* mo -> mo
  (<<112, 97>> :> <<112, 97>>) @@  \* pa -> pa
  (<<112, 105>> :> <<112, 105>>) @@  \* pi -> pi
  (<<112, 117>> :> <<112, 117>>) @@  \* pu -> pu
  (<<112, 101>> :> <<112, 101>>) @@  \* pe -> pe
  (<<112, 111>> :> <<112, 111>>) @@  \* po -> po
  (<<121, 97>> :> <<106, 97>>) @@  \* ya -> ja
  (<<121, 117>> :> <<106, 117>>) @@  \* yu -> ju
  (<<121, 111>> :> <<106, 111>>) @@  \* yo -> jo
  (<<114, 97>> :> <<108, 97>>) @@  \* ra -> la
  (<<114, 105>> :> <<108, 105>>) @@  \* ri -> li
  (<<114, 117>> :> <<108, 117>>) @@  \* ru -> lu
  (<<114, 101>> :> <<108, 101>>) @@  \* re -> le
  (<<114, 111>> :> <<108, 111>>) @@  \* ro -> lo
  (<<119, 97>> :> <<119, 97>>) @@  \* wa -> wa
  (<<119, 111>> :> <<119, 111>>) @@  \* wo -> wo
  (<<110>> :> <<110>>)  \* n -> n

\* the voiced rows left as they are spelled
BASE_VOICED_kept ==
  [t \in {<<103, 97>>, <<103, 105>>, <<103, 117>>, <<103, 101>>, <<103, 111>>, <<122, 97>>, <<106, 105>>, <<122, 117>>, <<122, 101>>, <<122, 111>>, <<100, 97>>, <<100, 105>>, <<100, 117>>, <<100, 101>>, <<100, 111>>, <<98, 97>>, <<98, 105>>, <<98, 117>>, <<98, 101>>, <<98, 111>>} |-> t]

\* tokiponizer.py BASE_MAP, lines 87-91: voiced rows, mapped to their unvoiced syllables
BASE_VOICED ==
  (<<103, 97>> :> <<107, 97>>) @@  \* ga -> ka
  (<<103, 105>> :> <<107, 105>>) @@  \* gi -> ki
  (<<103, 117>> :> <<107, 117>>) @@  \* gu -> ku
  (<<103, 101>> :> <<107, 101>>) @@  \* ge -> ke
  (<<103, 111>> :> <<107, 111>>) @@  \* go -> ko
  (<<122, 97>> :> <<115, 97>>) @@  \* za -> sa
  (<<106, 105>> :> <<115, 105>>) @@  \* ji -> si
  (<<122, 117>> :> <<115, 117>>) @@  \* zu -> su
  (<<122, 101>> :> <<115, 101>>) @@  \* ze -> se
  (<<122, 111>> :> <<115, 111>>) @@  \* zo -> so
  (<<100, 97>> :> <<116, 97>>) @@  \* da -> ta
  (<<100, 105>> :> <<115, 105>>) @@  \* di -> si
  (<<100, 117>> :> <<116, 117>>) @@  \* du -> tu
  (<<100, 101>> :> <<116, 101>>) @@  \* de -> te
  (<<100, 111>> :> <<116, 111>>) @@  \* do -> to
  (<<98, 97>> :> <<112, 97>>) @@  \* ba -> pa
  (<<98, 105>> :> <<112, 105>>) @@  \* bi -> pi
  (<<98, 117>> :> <<112, 117>>) @@  \* bu -> pu
  (<<98, 101>> :> <<112, 101>>) @@  \* be -> pe
  (<<98, 111>> :> <<112, 111>>)  \* bo -> po

\* tokiponizer.py BASE_MAP, lines 93-94: h row, processed positionally by apply_h_position
BASE_H ==
  (<<104, 97>> :> <<104, 97>>) @@  \* ha -> ha
  (<<104, 105>> :> <<104, 105>>) @@  \* hi -> hi
  (<<104, 117>> :> <<112, 117>>) @@  \* hu -> pu
  (<<102, 117>> :> <<112, 117>>) @@  \* fu -> pu
  (<<104, 101>> :> <<104, 101>>) @@  \* he -> he
  (<<104, 111>> :> <<104, 111>>)  \* ho -> ho

\* tokiponizer.py BASE_MAP: romaji syllable -> Toki Pona syllable
BASE_MAP == BASE_PLAIN @@ BASE_VOICED @@ BASE_H

\* tokiponizer.py YOON_MAP: palatalized romaji -> Toki Pona
YOON_MAP ==
  (<<107, 121, 97>> :> <<107, 105, 106, 97>>) @@  \* kya -> kija
  (<<107, 121, 117>> :> <<107, 105, 106, 117>>) @@  \* kyu -> kiju
  (<<107, 121, 111>> :> <<107, 105, 106, 111>>) @@  \* kyo -> kijo
  (<<115, 104, 97>> :> <<115, 105, 106, 97>>) @@  \* sha -> sija
  (<<115, 104, 117>> :> <<115, 105, 106, 117>>) @@  \* shu -> siju
  (<<115, 104, 111>> :> <<115, 105, 106, 111>>) @@  \* sho -> sijo
  (<<99, 104, 97>> :> <<116, 101, 106, 97>>) @@  \* cha -> teja
  (<<99, 104, 117>> :> <<116, 101, 106, 117>>) @@  \* chu -> teju
  (<<99, 104, 111>> :> <<116, 101, 106, 111>>) @@  \* cho -> tejo
  (<<110, 121, 97>> :> <<110, 97>>) @@  \* nya -> na
  (<<110, 121, 117>> :> <<110, 105, 121, 117>>) @@  \* nyu -> niyu
  (<<110, 121, 111>> :> <<110, 111>>) @@  \* nyo -> no
  (<<104, 121, 97>> :> <<107, 105, 106, 97>>) @@  \* hya -> kija
  (<<104, 121, 117>> :> <<107, 105, 106, 117>>) @@  \* hyu -> kiju
  (<<104, 121, 111>> :> <<107, 105, 106, 111>>) @@  \* hyo -> kijo
  (<<109, 121, 97>> :> <<109, 105, 106, 97>>) @@  \* mya -> mija
  (<<109, 121, 117>> :> <<109, 105, 106, 117>>) @@  \* myu -> miju
  (<<109, 121, 111>> :> <<109, 105, 106, 111>>) @@  \* myo -> mijo
  (<<114, 121, 97>> :> <<108, 105, 121, 97>>) @@  \* rya -> liya
  (<<114, 121, 117>> :> <<108, 105, 121, 117>>) @@  \* ryu -> liyu
  (<<114, 121, 111>> :> <<108, 105, 121, 111>>) @@  \* ryo -> liyo
  (<<103, 121, 97>> :> <<107, 105, 106, 97>>) @@  \* gya -> kija
  (<<103, 121, 117>> :> <<107, 105, 106, 117>>) @@  \* gyu -> kiju
  (<<103, 121, 111>> :> <<107, 105, 106, 111>>) @@  \* gyo -> kijo
  (<<106, 97>> :> <<115, 105, 106, 97>>) @@  \* ja -> sija
  (<<106, 117>> :> <<115, 105, 106, 117>>) @@  \* ju -> siju
  (<<106, 111>> :> <<115, 105, 106, 111>>) @@  \* jo -> sijo
  (<<98, 121, 97>> :> <<112, 105, 106, 97>>) @@  \* bya -> pija
  (<<98, 121, 117>> :> <<112, 105, 106, 117>>) @@  \* byu -> piju
  (<<98, 121, 111>> :> <<112, 105, 106, 111>>) @@  \* byo -> pijo
  (<<112, 121, 97>> :> <<112, 105, 106, 97>>) @@  \* pya -> pija
  (<<112, 121, 117>> :> <<112, 105, 106, 117>>) @@  \* pyu -> piju
  (<<112, 121, 111>> :> <<112, 105, 106, 111>>) @@  \* pyo -> pijo
  (<<100, 121, 97>> :> <<116, 101, 106, 97>>) @@  \* dya -> teja
  (<<100, 121, 117>> :> <<116, 101, 106, 117>>) @@  \* dyu -> teju
  (<<100, 121, 111>> :> <<116, 101, 106, 111>>)  \* dyo -> tejo

\* tokiponizer.py DIPTHONGS: ordered vowel pair -> replacement
DIPTHONGS ==
  (<<97, 97>> :> <<97>>) @@  \* aa -> a
  (<<97, 105>> :> <<97>>) @@  \* ai -> a
  (<<97, 117>> :> <<97>>) @@  \* au -> a
  (<<97, 101>> :> <<97, 119, 101>>) @@  \* ae -> awe
  (<<97, 111>> :> <<111>>) @@  \* ao -> o
  (<<105, 97>> :> <<105, 106, 97>>) @@  \* ia -> ija
  (<<105, 105>> :> <<105>>) @@  \* ii -> i
  (<<105, 117>> :> <<105, 106, 117>>) @@  \* iu -> iju
  (<<105, 101>> :> <<105, 106, 101>>) @@  \* ie -> ije
  (<<105, 111>> :> <<105, 106, 111>>) @@  \* io -> ijo
  (<<117, 97>> :> <<117, 119, 97>>) @@  \* ua -> uwa
  (<<117, 105>> :> <<117, 119, 105>>) @@  \* ui -> uwi
  (<<117, 117>> :> <<117>>) @@  \* uu -> u
  (<<117, 101>> :> <<117, 119, 101>>) @@  \* ue -> uwe
  (<<117, 111>> :> <<111>>) @@  \* uo -> o
  (<<101, 97>> :> <<101, 106, 97>>) @@  \* ea -> eja
  (<<101, 105>> :> <<101>>) @@  \* ei -> e
  (<<101, 117>> :> <<101, 106, 117>>) @@  \* eu -> eju
  (<<101, 101>> :> <<101>>) @@  \* ee -> e
  (<<101, 111>> :> <<101, 106, 111>>) @@  \* eo -> ejo
  (<<111, 97>> :> <<111, 119, 97>>) @@  \* oa -> owa
  (<<111, 105>> :> <<111, 119, 105>>) @@  \* oi -> owi
  (<<111, 117>> :> <<111>>) @@  \* ou -> o
  (<<111, 101>> :> <<111, 119, 101>>) @@  \* oe -> owe
  (<<111, 111>> :> <<111>>)  \* oo -> o

\* koreanizer.py ROMAJI_TO_HANGUL: romaji -> precomposed Hangul block (U+3134 for n)
ROMAJI_TO_HANGUL ==
  (<<97>> :> <<50500>>) @@  \* a -> U+C544
  (<<105>> :> <<51060>>) @@  \* i -> U+C774
  (<<117>> :> <<50864>>) @@  \* u -> U+C6B0
  (<<101>> :> <<50640>>) @@  \* e -> U+C5D0
  (<<111>> :> <<50724>>) @@  \* o -> U+C624
  (<<107, 97>> :> <<52852>>) @@  \* ka -> U+CE74
  (<<107, 105>> :> <<53412>>) @@  \* ki -> U+D0A4
  (<<107, 117>> :> <<53216>>) @@  \* ku -> U+CFE0
  (<<107, 101>> :> <<52992>>) @@  \* ke -> U+CF00
  (<<107, 111>> :> <<53076>>) @@  \* ko -> U+CF54
  (<<115, 97>> :> <<49324>>) @@  \* sa -> U+C0AC
  (<<115, 104, 105>> :> <<49884>>) @@  \* shi -> U+C2DC
  (<<115, 117>> :> <<49828>>) @@  \* su -> U+C2A4
  (<<115, 101>> :> <<49464>>) @@  \* se -> U+C138
  (<<115, 111>> :> <<49548>>) @@  \* so -> U+C18C
  (<<116, 97>> :> <<53440>>) @@  \* ta -> U+D0C0
  (<<99, 104, 105>> :> <<52824>>) @@  \* chi -> U+CE58
  (<<116, 115, 117>> :> <<50416>>) @@  \* tsu -> U+C4F0
  (<<116, 117>> :> <<50416>>) @@  \* tu -> U+C4F0
  (<<116, 101>> :> <<53580>>) @@  \* te -> U+D14C
  (<<116, 111>> :> <<53664>>) @@  \* to -> U+D1A0
  (<<110, 97>> :> <<45208>>) @@  \* na -> U+B098
  (<<110, 105>> :> <<45768>>) @@  \* ni -> U+B2C8
  (<<110, 117>> :> <<45572>>) @@  \* nu -> U+B204
  (<<110, 101>> :> <<45348>>) @@  \* ne -> U+B124
  (<<110, 111>> :> <<45432>>) @@  \* no -> U+B178
  (<<104, 97>> :> <<54616>>) @@  \* ha -> U+D558
  (<<104, 105>> :> <<55176>>) @@  \* hi -> U+D788
  (<<104, 117>> :> <<54980>>) @@  \* hu -> U+D6C4
  (<<102, 117>> :> <<54980>>) @@  \* fu -> U+D6C4
  (<<104, 101>> :> <<54756>>) @@  \* he -> U+D5E4
  (<<104, 111>> :> <<54840>>) @@  \* ho -> U+D638
  (<<109, 97>> :> <<47560>>) @@  \* ma -> U+B9C8
  (<<109, 105>> :> <<48120>>) @@  \* mi -> U+BBF8
  (<<109, 117>> :> <<47924>>) @@  \* mu -> U+BB34
  (<<109, 101>> :> <<47700>>) @@  \* me -> U+BA54
  (<<109, 111>> :> <<47784>>) @@  \* mo -> U+BAA8
  (<<121, 97>> :> <<50556>>) @@  \* ya -> U+C57C
  (<<121, 117>> :> <<50976>>) @@  \* yu -> U+C720
  (<<121, 111>> :> <<50836>>) @@  \* yo -> U+C694
  (<<114, 97>> :> <<46972>>) @@  \* ra -> U+B77C
  (<<114, 105>> :> <<47532>>) @@  \* ri -> U+B9AC
  (<<114, 117>> :> <<47336>>) @@  \* ru -> U+B8E8
  (<<114, 101>> :> <<47112>>) @@  \* re -> U+B808
  (<<114, 111>> :> <<47196>>) @@  \* ro -> U+B85C
  (<<119, 97>> :> <<50752>>) @@  \* wa -> U+C640
  (<<119, 105>> :> <<50948>>) @@  \* wi -> U+C704
  (<<119, 101>> :> <<50920>>) @@  \* we -> U+C6E8
  (<<119, 111>> :> <<50724>>) @@  \* wo -> U+C624
  (<<110>> :> <<12596>>) @@  \* n -> U+3134
  (<<103, 97>> :> <<44032>>) @@  \* ga -> U+AC00
  (<<103, 105>> :> <<44592>>) @@  \* gi -> U+AE30
  (<<103, 117>> :> <<44396>>) @@  \* gu -> U+AD6C
  (<<103, 101>> :> <<44172>>) @@  \* ge -> U+AC8C
  (<<103, 111>> :> <<44256>>) @@  \* go -> U+ACE0
  (<<122, 97>> :> <<51088>>) @@  \* za -> U+C790
  (<<106, 105>> :> <<51648>>) @@  \* ji -> U+C9C0
  (<<122, 117>> :> <<51592>>) @@  \* zu -> U+C988
  (<<122, 101>> :> <<51228>>) @@  \* ze -> U+C81C
  (<<122, 111>> :> <<51312>>) @@  \* zo -> U+C870
  (<<100, 97>> :> <<45796>>) @@  \* da -> U+B2E4
  (<<100, 105>> :> <<51648>>) @@  \* di -> U+C9C0
  (<<100, 117>> :> <<51592>>) @@  \* du -> U+C988
  (<<100, 101>> :> <<45936>>) @@  \* de -> U+B370
  (<<100, 111>> :> <<46020>>) @@  \* do -> U+B3C4
  (<<98, 97>> :> <<48148>>) @@  \* ba -> U+BC14
  (<<98, 105>> :> <<48708>>) @@  \* bi -> U+BE44
  (<<98, 117>> :> <<48512>>) @@  \* bu -> U+BD80
  (<<98, 101>> :> <<48288>>) @@  \* be -> U+BCA0
  (<<98, 111>> :> <<48372>>) @@  \* bo -> U+BCF4
  (<<112, 97>> :> <<54028>>) @@  \* pa -> U+D30C
  (<<112, 105>> :> <<54588>>) @@  \* pi -> U+D53C
  (<<112, 117>> :> <<54392>>) @@  \* pu -> U+D478
  (<<112, 101>> :> <<54168>>) @@  \* pe -> U+D398
  (<<112, 111>> :> <<54252>>)  \* po -> U+D3EC

\* koreanizer.py YOON_TO_HANGUL
YOON_TO_HANGUL ==
  (<<107, 121, 97>> :> <<52908>>) @@  \* kya -> U+CEAC
  (<<107, 121, 117>> :> <<53328>>) @@  \* kyu -> U+D050
  (<<107, 121, 111>> :> <<53188>>) @@  \* kyo -> U+CFC4
  (<<115, 104, 97>> :> <<49380>>) @@  \* sha -> U+C0E4
  (<<115, 104, 117>> :> <<49800>>) @@  \* shu -> U+C288
  (<<115, 104, 111>> :> <<49660>>) @@  \* sho -> U+C1FC
  (<<99, 104, 97>> :> <<52264>>) @@  \* cha -> U+CC28
  (<<99, 104, 117>> :> <<52628>>) @@  \* chu -> U+CD94
  (<<99, 104, 111>> :> <<52488>>) @@  \* cho -> U+CD08
  (<<110, 121, 97>> :> <<45264>>) @@  \* nya -> U+B0D0
  (<<110, 121, 117>> :> <<45684>>) @@  \* nyu -> U+B274
  (<<110, 121, 111>> :> <<45544>>) @@  \* nyo -> U+B1E8
  (<<104, 121, 97>> :> <<54672>>) @@  \* hya -> U+D590
  (<<104, 121, 117>> :> <<55092>>) @@  \* hyu -> U+D734
  (<<104, 121, 111>> :> <<54952>>) @@  \* hyo -> U+D6A8
  (<<109, 121, 97>> :> <<47616>>) @@  \* mya -> U+BA00
  (<<109, 121, 117>> :> <<48036>>) @@  \* myu -> U+BBA4
  (<<109, 121, 111>> :> <<47896>>) @@  \* myo -> U+BB18
  (<<114, 121, 97>> :> <<47028>>) @@  \* rya -> U+B7B4
  (<<114, 121, 117>> :> <<47448>>) @@  \* ryu -> U+B958
  (<<114, 121, 111>> :> <<47308>>) @@  \* ryo -> U+B8CC
  (<<103, 121, 97>> :> <<44088>>) @@  \* gya -> U+AC38
  (<<103, 121, 117>> :> <<44508>>) @@  \* gyu -> U+ADDC
  (<<103, 121, 111>> :> <<44368>>) @@  \* gyo -> U+AD50
  (<<106, 97>> :> <<51088>>) @@  \* ja -> U+C790
  (<<106, 117>> :> <<51452>>) @@  \* ju -> U+C8FC
  (<<106, 111>> :> <<51312>>) @@  \* jo -> U+C870
  (<<98, 121, 97>> :> <<48204>>) @@  \* bya -> U+BC4C
  (<<98, 121, 117>> :> <<48624>>) @@  \* byu -> U+BDF0
  (<<98, 121, 111>> :> <<48484>>) @@  \* byo -> U+BD64
  (<<112, 121, 97>> :> <<54084>>) @@  \* pya -> U+D344
  (<<112, 121, 117>> :> <<54504>>) @@  \* pyu -> U+D4E8
  (<<112, 121, 111>> :> <<54364>>) @@  \* pyo -> U+D45C
  (<<100, 121, 97>> :> <<45852>>) @@  \* dya -> U+B31C
  (<<100, 121, 117>> :> <<46272>>) @@  \* dyu -> U+B4C0
  (<<100, 121, 111>> :> <<46132>>)  \* dyo -> U+B434

\* generate_multilang_quickstatements.py CYRILLIC_BASE
CYRILLIC_BASE ==
  (<<97>> :> <<1072>>) @@  \* a -> U+0430
  (<<105>> :> <<1080>>) @@  \* i -> U+0438
  (<<117>> :> <<1091>>) @@  \* u -> U+0443
  (<<101>> :> <<1101>>) @@  \* e -> U+044D
  (<<111>> :> <<1086>>) @@  \* o -> U+043E
  (<<107, 97>> :> <<1082, 1072>>) @@  \* ka -> U+043A+U+0430
  (<<107, 105>> :> <<1082, 1080>>) @@  \* ki -> U+043A+U+0438
  (<<107, 117>> :> <<1082, 1091>>) @@  \* ku -> U+043A+U+0443
  (<<107, 101>> :> <<1082, 1101>>) @@  \* ke -> U+043A+U+044D
  (<<107, 111>> :> <<1082, 1086>>) @@  \* ko -> U+043A+U+043E
  (<<115, 97>> :> <<1089, 1072>>) @@  \* sa -> U+0441+U+0430
  (<<115, 104, 105>> :> <<1089, 1080>>) @@  \* shi -> U+0441+U+0438
  (<<115, 117>> :> <<1089, 1091>>) @@  \* su -> U+0441+U+0443
  (<<115, 101>> :> <<1089, 1101>>) @@  \* se -> U+0441+U+044D
  (<<115, 111>> :> <<1089, 1086>>) @@  \* so -> U+0441+U+043E
  (<<116, 97>> :> <<1090, 1072>>) @@  \* ta -> U+0442+U+0430
  (<<99, 104, 105>> :> <<1090, 1080>>) @@  \* chi -> U+0442+U+0438
  (<<116, 115, 117>> :> <<1094, 1091>>) @@  \* tsu -> U+0446+U+0443
  (<<116, 117>> :> <<1094, 1091>>) @@  \* tu -> U+0446+U+0443
  (<<116, 101>> :> <<1090, 1101>>) @@  \* te -> U+0442+U+044D
  (<<116, 111>> :> <<1090, 1086>>) @@  \* to -> U+0442+U+043E
  (<<110, 97>> :> <<1085, 1072>>) @@  \* na -> U+043D+U+0430
  (<<110, 105>> :> <<1085, 1080>>) @@  \* ni -> U+043D+U+0438
  (<<110, 117>> :> <<1085, 1091>>) @@  \* nu -> U+043D+U+0443
  (<<110, 101>> :> <<1085, 1101>>) @@  \* ne -> U+043D+U+044D
  (<<110, 111>> :> <<1085, 1086>>) @@  \* no -> U+043D+U+043E
  (<<104, 97>> :> <<1093, 1072>>) @@  \* ha -> U+0445+U+0430
  (<<104, 105>> :> <<1093, 1080>>) @@  \* hi -> U+0445+U+0438
  (<<104, 117>> :> <<1092, 1091>>) @@  \* hu -> U+0444+U+0443
  (<<102, 117>> :> <<1092, 1091>>) @@  \* fu -> U+0444+U+0443
  (<<104, 101>> :> <<1093, 1101>>) @@  \* he -> U+0445+U+044D
  (<<104, 111>> :> <<1093, 1086>>) @@  \* ho -> U+0445+U+043E
  (<<109, 97>> :> <<1084, 1072>>) @@  \* ma -> U+043C+U+0430
  (<<109, 105>> :> <<1084, 1080>>) @@  \* mi -> U+043C+U+0438
  (<<109, 117>> :> <<1084, 1091>>) @@  \* mu -> U+043C+U+0443
  (<<109, 101>> :> <<1084, 1101>>) @@  \* me -> U+043C+U+044D
  (<<109, 111>> :> <<1084, 1086>>) @@  \* mo -> U+043C+U+043E
  (<<121, 97>> :> <<1103>>) @@  \* ya -> U+044F
  (<<121, 117>> :> <<1102>>) @@  \* yu -> U+044E
  (<<121, 111>> :> <<1105>>) @@  \* yo -> U+0451
  (<<114, 97>> :> <<1088, 1072>>) @@  \* ra -> U+0440+U+0430
  (<<114, 105>> :> <<1088, 1080>>) @@  \* ri -> U+0440+U+0438
  (<<114, 117>> :> <<1088, 1091>>) @@  \* ru -> U+0440+U+0443
  (<<114, 101>> :> <<1088, 1101>>) @@  \* re -> U+0440+U+044D
  (<<114, 111>> :> <<1088, 1086>>) @@  \* ro -> U+0440+U+043E
  (<<119, 97>> :> <<1074, 1072>>) @@  \* wa -> U+0432+U+0430
  (<<119, 105>> :> <<1074, 1080>>) @@  \* wi -> U+0432+U+0438
  (<<119, 101>> :> <<1074, 1101>>) @@  \* we -> U+0432+U+044D
  (<<119, 111>> :> <<1086>>) @@  \* wo -> U+043E
  (<<110>> :> <<1085>>) @@  \* n -> U+043D
  (<<103, 97>> :> <<1075, 1072>>) @@  \* ga -> U+0433+U+0430
  (<<103, 105>> :> <<1075, 1080>>) @@  \* gi -> U+0433+U+0438
  (<<103, 117>> :> <<1075, 1091>>) @@  \* gu -> U+0433+U+0443
  (<<103, 101>> :> <<1075, 1101>>) @@  \* ge -> U+0433+U+044D
  (<<103, 111>> :> <<1075, 1086>>) @@  \* go -> U+0433+U+043E
  (<<122, 97>> :> <<1076, 1079, 1072>>) @@  \* za -> U+0434+U+0437+U+0430
  (<<106, 105>> :> <<1076, 1079, 1080>>) @@  \* ji -> U+0434+U+0437+U+0438
  (<<122, 117>> :> <<1076, 1079, 1091>>) @@  \* zu -> U+0434+U+0437+U+0443
  (<<122, 101>> :> <<1076, 1079, 1101>>) @@  \* ze -> U+0434+U+0437+U+044D
  (<<122, 111>> :> <<1076, 1079, 1086>>) @@  \* zo -> U+0434+U+0437+U+043E
  (<<100, 97>> :> <<1076, 1072>>) @@  \* da -> U+0434+U+0430
  (<<100, 105>> :> <<1076, 1079, 1080>>) @@  \* di -> U+0434+U+0437+U+0438
  (<<100, 117>> :> <<1076, 1079, 1091>>) @@  \* du -> U+0434+U+0437+U+0443
  (<<100, 101>> :> <<1076, 1101>>) @@  \* de -> U+0434+U+044D
  (<<100, 111>> :> <<1076, 1086>>) @@  \* do -> U+0434+U+043E
  (<<98, 97>> :> <<1073, 1072>>) @@  \* ba -> U+0431+U+0430
  (<<98, 105>> :> <<1073, 1080>>) @@  \* bi -> U+0431+U+0438
  (<<98, 117>> :> <<1073, 1091>>) @@  \* bu -> U+0431+U+0443
  (<<98, 101>> :> <<1073, 1101>>) @@  \* be -> U+0431+U+044D
  (<<98, 111>> :> <<1073, 1086>>) @@  \* bo -> U+0431+U+043E
  (<<112, 97>> :> <<1087, 1072>>) @@  \* pa -> U+043F+U+0430
  (<<112, 105>> :> <<1087, 1080>>) @@  \* pi -> U+043F+U+0438
  (<<112, 117>> :> <<1087, 1091>>) @@  \* pu -> U+043F+U+0443
  (<<112, 101>> :> <<1087, 1101>>) @@  \* pe -> U+043F+U+044D
  (<<112, 111>> :> <<1087, 1086>>)  \* po -> U+043F+U+043E

\* generate_multilang_quickstatements.py CYRILLIC_YOON
CYRILLIC_YOON ==
  (<<107, 121, 97>> :> <<1082, 1103>>) @@  \* kya -> U+043A+U+044F
  (<<107, 121, 117>> :> <<1082, 1102>>) @@  \* kyu -> U+043A+U+044E
  (<<107, 121, 111>> :> <<1082, 1105>>) @@  \* kyo -> U+043A+U+0451
  (<<115, 104, 97>> :> <<1089, 1103>>) @@  \* sha -> U+0441+U+044F
  (<<115, 104, 117>> :> <<1089, 1102>>) @@  \* shu -> U+0441+U+044E
  (<<115, 104, 111>> :> <<1089, 1105>>) @@  \* sho -> U+0441+U+0451
  (<<99, 104, 97>> :> <<1090, 1103>>) @@  \* cha -> U+0442+U+044F
  (<<99, 104, 117>> :> <<1090, 1102>>) @@  \* chu -> U+0442+U+044E
  (<<99, 104, 111>> :> <<1090, 1105>>) @@  \* cho -> U+0442+U+0451
  (<<110, 121, 97>> :> <<1085, 1103>>) @@  \* nya -> U+043D+U+044F
  (<<110, 121, 117>> :> <<1085, 1102>>) @@  \* nyu -> U+043D+U+044E
  (<<110, 121, 111>> :> <<1085, 1105>>) @@  \* nyo -> U+043D+U+0451
  (<<104, 121, 97>> :> <<1093, 1103>>) @@  \* hya -> U+0445+U+044F
  (<<104, 121, 117>> :> <<1093, 1102>>) @@  \* hyu -> U+0445+U+044E
  (<<104, 121, 111>> :> <<1093, 1105>>) @@  \* hyo -> U+0445+U+0451
  (<<109, 121, 97>> :> <<1084, 1103>>) @@  \* mya -> U+043C+U+044F
  (<<109, 121, 117>> :> <<1084, 1102>>) @@  \* myu -> U+043C+U+044E
  (<<109, 121, 111>> :> <<1084, 1105>>) @@  \* myo -> U+043C+U+0451
  (<<114, 121, 97>> :> <<1088, 1103>>) @@  \* rya -> U+0440+U+044F
  (<<114, 121, 117>> :> <<1088, 1102>>) @@  \* ryu -> U+0440+U+044E
  (<<114, 121, 111>> :> <<1088, 1105>>) @@  \* ryo -> U+0440+U+0451
  (<<103, 121, 97>> :> <<1075, 1103>>) @@  \* gya -> U+0433+U+044F
  (<<103, 121, 117>> :> <<1075, 1102>>) @@  \* gyu -> U+0433+U+044E
  (<<103, 121, 111>> :> <<1075, 1105>>) @@  \* gyo -> U+0433+U+0451
  (<<106, 97>> :> <<1076, 1079, 1103>>) @@  \* ja -> U+0434+U+0437+U+044F
  (<<106, 117>> :> <<1076, 1079, 1102>>) @@  \* ju -> U+0434+U+0437+U+044E
  (<<106, 111>> :> <<1076, 1079, 1105>>) @@  \* jo -> U+0434+U+0437+U+0451
  (<<98, 121, 97>> :> <<1073, 1103>>) @@  \* bya -> U+0431+U+044F
  (<<98, 121, 117>> :> <<1073, 1102>>) @@  \* byu -> U+0431+U+044E
  (<<98, 121, 111>> :> <<1073, 1105>>) @@  \* byo -> U+0431+U+0451
  (<<112, 121, 97>> :> <<1087, 1103>>) @@  \* pya -> U+043F+U+044F
  (<<112, 121, 117>> :> <<1087, 1102>>) @@  \* pyu -> U+043F+U+044E
  (<<112, 121, 111>> :> <<1087, 1105>>) @@  \* pyo -> U+043F+U+0451
  (<<100, 121, 97>> :> <<1076, 1103>>) @@  \* dya -> U+0434+U+044F
  (<<100, 121, 117>> :> <<1076, 1102>>) @@  \* dyu -> U+0434+U+044E
  (<<100, 121, 111>> :> <<1076, 1105>>)  \* dyo -> U+0434+U+0451

\* generate_multilang_quickstatements.py FARSI_INITIAL
FARSI_INITIAL ==
  (<<97>> :> <<1575>>) @@  \* a -> U+0627
  (<<105>> :> <<1575, 1740>>) @@  \* i -> U+0627+U+06CC
  (<<117>> :> <<1575, 1608>>) @@  \* u -> U+0627+U+0648
  (<<101>> :> <<1575, 1740>>) @@  \* e -> U+0627+U+06CC
  (<<111>> :> <<1575, 1608>>)  \* o -> U+0627+U+0648

\* generate_multilang_quickstatements.py FARSI_BASE
FARSI_BASE ==
  (<<97>> :> <<1575>>) @@  \* a -> U+0627
  (<<105>> :> <<1740>>) @@  \* i -> U+06CC
  (<<117>> :> <<1608>>) @@  \* u -> U+0648
  (<<101>> :> <<1607>>) @@  \* e -> U+0647
  (<<111>> :> <<1608>>) @@  \* o -> U+0648
  (<<107, 97>> :> <<1705, 1575>>) @@  \* ka -> U+06A9+U+0627
  (<<107, 105>> :> <<1705, 1740>>) @@  \* ki -> U+06A9+U+06CC
  (<<107, 117>> :> <<1705, 1608>>) @@  \* ku -> U+06A9+U+0648
  (<<107, 101>> :> <<1705, 1607>>) @@  \* ke -> U+06A9+U+0647
  (<<107, 111>> :> <<1705, 1608>>) @@  \* ko -> U+06A9+U+0648
  (<<115, 97>> :> <<1587, 1575>>) @@  \* sa -> U+0633+U+0627
  (<<115, 104, 105>> :> <<1588, 1740>>) @@  \* shi -> U+0634+U+06CC
  (<<115, 117>> :> <<1587, 1608>>) @@  \* su -> U+0633+U+0648
  (<<115, 101>> :> <<1587, 1607>>) @@  \* se -> U+0633+U+0647
  (<<115, 111>> :> <<1587, 1608>>) @@  \* so -> U+0633+U+0648
  (<<116, 97>> :> <<1578, 1575>>) @@  \* ta -> U+062A+U+0627
  (<<99, 104, 105>> :> <<1670, 1740>>) @@  \* chi -> U+0686+U+06CC
  (<<116, 115, 117>> :> <<1578, 1587, 1608>>) @@  \* tsu -> U+062A+U+0633+U+0648
  (<<116, 117>> :> <<1578, 1587, 1608>>) @@  \* tu -> U+062A+U+0633+U+0648
  (<<116, 101>> :> <<1578, 1607>>) @@  \* te -> U+062A+U+0647
  (<<116, 111>> :> <<1578, 1608>>) @@  \* to -> U+062A+U+0648
  (<<110, 97>> :> <<1606, 1575>>) @@  \* na -> U+0646+U+0627
  (<<110, 105>> :> <<1606, 1740>>) @@  \* ni -> U+0646+U+06CC
  (<<110, 117>> :> <<1606, 1608>>) @@  \* nu -> U+0646+U+0648
  (<<110, 101>> :> <<1606, 1607>>) @@  \* ne -> U+0646+U+0647
  (<<110, 111>> :> <<1606, 1608>>) @@  \* no -> U+0646+U+0648
  (<<104, 97>> :> <<1607, 1575>>) @@  \* ha -> U+0647+U+0627
  (<<104, 105>> :> <<1607, 1740>>) @@  \* hi -> U+0647+U+06CC
  (<<104, 117>> :> <<1607, 1608>>) @@  \* hu -> U+0647+U+0648
  (<<102, 117>> :> <<1601, 1608>>) @@  \* fu -> U+0641+U+0648
  (<<104, 101>> :> <<1607, 1607>>) @@  \* he -> U+0647+U+0647
  (<<104, 111>> :> <<1607, 1608>>) @@  \* ho -> U+0647+U+0648
  (<<109, 97>> :> <<1605, 1575>>) @@  \* ma -> U+0645+U+0627
  (<<109, 105>> :> <<1605, 1740>>) @@  \* mi -> U+0645+U+06CC
  (<<109, 117>> :> <<1605, 1608>>) @@  \* mu -> U+0645+U+0648
  (<<109, 101>> :> <<1605, 1607>>) @@  \* me -> U+0645+U+0647
  (<<109, 111>> :> <<1605, 1608>>) @@  \* mo -> U+0645+U+0648
  (<<121, 97>> :> <<1740, 1575>>) @@  \* ya -> U+06CC+U+0627
  (<<121, 117>> :> <<1740, 1608>>) @@  \* yu -> U+06CC+U+0648
  (<<121, 111>> :> <<1740, 1608>>) @@  \* yo -> U+06CC+U+0648
  (<<114, 97>> :> <<1585, 1575>>) @@  \* ra -> U+0631+U+0627
  (<<114, 105>> :> <<1585, 1740>>) @@  \* ri -> U+0631+U+06CC
  (<<114, 117>> :> <<1585, 1608>>) @@  \* ru -> U+0631+U+0648
  (<<114, 101>> :> <<1585, 1607>>) @@  \* re -> U+0631+U+0647
  (<<114, 111>> :> <<1585, 1608>>) @@  \* ro -> U+0631+U+0648
  (<<119, 97>> :> <<1608, 1575>>) @@  \* wa -> U+0648+U+0627
  (<<119, 105>> :> <<1608, 1740>>) @@  \* wi -> U+0648+U+06CC
  (<<119, 101>> :> <<1608, 1607>>) @@  \* we -> U+0648+U+0647
  (<<119, 111>> :> <<1608>>) @@  \* wo -> U+0648
  (<<110>> :> <<1606>>) @@  \* n -> U+0646
  (<<103, 97>> :> <<1711, 1575>>) @@  \* ga -> U+06AF+U+0627
  (<<103, 105>> :> <<1711, 1740>>) @@  \* gi -> U+06AF+U+06CC
  (<<103, 117>> :> <<1711, 1608>>) @@  \* gu -> U+06AF+U+0648
  (<<103, 101>> :> <<1711, 1607>>) @@  \* ge -> U+06AF+U+0647
  (<<103, 111>> :> <<1711, 1608>>) @@  \* go -> U+06AF+U+0648
  (<<122, 97>> :> <<1586, 1575>>) @@  \* za -> U+0632+U+0627
  (<<106, 105>> :> <<1580, 1740>>) @@  \* ji -> U+062C+U+06CC
  (<<122, 117>> :> <<1586, 1608>>) @@  \* zu -> U+0632+U+0648
  (<<122, 101>> :> <<1586, 1607>>) @@  \* ze -> U+0632+U+0647
  (<<122, 111>> :> <<1586, 1608>>) @@  \* zo -> U+0632+U+0648
  (<<100, 97>> :> <<1583, 1575>>) @@  \* da -> U+062F+U+0627
  (<<100, 105>> :> <<1583, 1740>>) @@  \* di -> U+062F+U+06CC
  (<<100, 117>> :> <<1583, 1608>>) @@  \* du -> U+062F+U+0648
  (<<100, 101>> :> <<1583, 1607>>) @@  \* de -> U+062F+U+0647
  (<<100, 111>> :> <<1583, 1608>>) @@  \* do -> U+062F+U+0648
  (<<98, 97>> :> <<1576, 1575>>) @@  \* ba -> U+0628+U+0627
  (<<98, 105>> :> <<1576, 1740>>) @@  \* bi -> U+0628+U+06CC
  (<<98, 117>> :> <<1576, 1608>>) @@  \* bu -> U+0628+U+0648
  (<<98, 101>> :> <<1576, 1607>>) @@  \* be -> U+0628+U+0647
  (<<98, 111>> :> <<1576, 1608>>) @@  \* bo -> U+0628+U+0648
  (<<112, 97>> :> <<1662, 1575>>) @@  \* pa -> U+067E+U+0627
  (<<112, 105>> :> <<1662, 1740>>) @@  \* pi -> U+067E+U+06CC
  (<<112, 117>> :> <<1662, 1608>>) @@  \* pu -> U+067E+U+0648
  (<<112, 101>> :> <<1662, 1607>>) @@  \* pe -> U+067E+U+0647
  (<<112, 111>> :> <<1662, 1608>>)  \* po -> U+067E+U+0648

\* generate_multilang_quickstatements.py FARSI_YOON
FARSI_YOON ==
  (<<107, 121, 97>> :> <<1705, 1740, 1575>>) @@  \* kya -> U+06A9+U+06CC+U+0627
  (<<107, 121, 117>> :> <<1705, 1740, 1608>>) @@  \* kyu -> U+06A9+U+06CC+U+0648
  (<<107, 121, 111>> :> <<1705, 1740, 1608>>) @@  \* kyo -> U+06A9+U+06CC+U+0648
  (<<115, 104, 97>> :> <<1588, 1575>>) @@  \* sha -> U+0634+U+0627
  (<<115, 104, 117>> :> <<1588, 1608>>) @@  \* shu -> U+0634+U+0648
  (<<115, 104, 111>> :> <<1588, 1608>>) @@  \* sho -> U+0634+U+0648
  (<<99, 104, 97>> :> <<1670, 1575>>) @@  \* cha -> U+0686+U+0627
  (<<99, 104, 117>> :> <<1670, 1608>>) @@  \* chu -> U+0686+U+0648
  (<<99, 104, 111>> :> <<1670, 1608>>) @@  \* cho -> U+0686+U+0648
  (<<110, 121, 97>> :> <<1606, 1740, 1575>>) @@  \* nya -> U+0646+U+06CC+U+0627
  (<<110, 121, 117>> :> <<1606, 1740, 1608>>) @@  \* nyu -> U+0646+U+06CC+U+0648
  (<<110, 121, 111>> :> <<1606, 1740, 1608>>) @@  \* nyo -> U+0646+U+06CC+U+0648
  (<<104, 121, 97>> :> <<1607, 1740, 1575>>) @@  \* hya -> U+0647+U+06CC+U+0627
  (<<104, 121, 117>> :> <<1607, 1740, 1608>>) @@  \* hyu -> U+0647+U+06CC+U+0648
  (<<104, 121, 111>> :> <<1607, 1740, 1608>>) @@  \* hyo -> U+0647+U+06CC+U+0648
  (<<109, 121, 97>> :> <<1605, 1740, 1575>>) @@  \* mya -> U+0645+U+06CC+U+0627
  (<<109, 121, 117>> :> <<1605, 1740, 1608>>) @@  \* myu -> U+0645+U+06CC+U+0648
  (<<109, 121, 111>> :> <<1605, 1740, 1608>>) @@  \* myo -> U+0645+U+06CC+U+0648
  (<<114, 121, 97>> :> <<1585, 1740, 1575>>) @@  \* rya -> U+0631+U+06CC+U+0627
  (<<114, 121, 117>> :> <<1585, 1740, 1608>>) @@  \* ryu -> U+0631+U+06CC+U+0648
  (<<114, 121, 111>> :> <<1585, 1740, 1608>>) @@  \* ryo -> U+0631+U+06CC+U+0648
  (<<103, 121, 97>> :> <<1711, 1740, 1575>>) @@  \* gya -> U+06AF+U+06CC+U+0627
  (<<103, 121, 117>> :> <<1711, 1740, 1608>>) @@  \* gyu -> U+06AF+U+06CC+U+0648
  (<<103, 121, 111>> :> <<1711, 1740, 1608>>) @@  \* gyo -> U+06AF+U+06CC+U+0648
  (<<106, 97>> :> <<1580, 1575>>) @@  \* ja -> U+062C+U+0627
  (<<106, 117>> :> <<1580, 1608>>) @@  \* ju -> U+062C+U+0648
  (<<106, 111>> :> <<1580, 1608>>) @@  \* jo -> U+062C+U+0648
  (<<98, 121, 97>> :> <<1576, 1740, 1575>>) @@  \* bya -> U+0628+U+06CC+U+0627
  (<<98, 121, 117>> :> <<1576, 1740, 1608>>) @@  \* byu -> U+0628+U+06CC+U+0648
  (<<98, 121, 111>> :> <<1576, 1740, 1608>>) @@  \* byo -> U+0628+U+06CC+U+0648
  (<<112, 121, 97>> :> <<1662, 1740, 1575>>) @@  \* pya -> U+067E+U+06CC+U+0627
  (<<112, 121, 117>> :> <<1662, 1740, 1608>>) @@  \* pyu -> U+067E+U+06CC+U+0648
  (<<112, 121, 111>> :> <<1662, 1740, 1608>>) @@  \* pyo -> U+067E+U+06CC+U+0648
  (<<100, 121, 97>> :> <<1583, 1740, 1575>>) @@  \* dya -> U+062F+U+06CC+U+0627
  (<<100, 121, 117>> :> <<1583, 1740, 1608>>) @@  \* dyu -> U+062F+U+06CC+U+0648
  (<<100, 121, 111>> :> <<1583, 1740, 1608>>)  \* dyo -> U+062F+U+06CC+U+0648

\* generate_multilang_quickstatements.py ARABIC_INITIAL
ARABIC_INITIAL ==
  (<<97>> :> <<1571>>) @@  \* a -> U+0623
  (<<105>> :> <<1573, 1610>>) @@  \* i -> U+0625+U+064A
  (<<117>> :> <<1571, 1608>>) @@  \* u -> U+0623+U+0648
  (<<101>> :> <<1573, 1610>>) @@  \* e -> U+0625+U+064A
  (<<111>> :> <<1571, 1608>>)  \* o -> U+0623+U+0648

\* generate_multilang_quickstatements.py ARABIC_BASE
ARABIC_BASE ==
  (<<97>> :> <<1575>>) @@  \* a -> U+0627
  (<<105>> :> <<1610>>) @@  \* i -> U+064A
  (<<117>> :> <<1608>>) @@  \* u -> U+0648
  (<<101>> :> <<1610>>) @@  \* e -> U+064A
  (<<111>> :> <<1608>>) @@  \* o -> U+0648
  (<<107, 97>> :> <<1603, 1575>>) @@  \* ka -> U+0643+U+0627
  (<<107, 105>> :> <<1603, 1610>>) @@  \* ki -> U+0643+U+064A
  (<<107, 117>> :> <<1603, 1608>>) @@  \* ku -> U+0643+U+0648
  (<<107, 101>> :> <<1603, 1610>>) @@  \* ke -> U+0643+U+064A
  (<<107, 111>> :> <<1603, 1608>>) @@  \* ko -> U+0643+U+0648
  (<<115, 97>> :> <<1587, 1575>>) @@  \* sa -> U+0633+U+0627
  (<<115, 104, 105>> :> <<1588, 1610>>) @@  \* shi -> U+0634+U+064A
  (<<115, 117>> :> <<1587, 1608>>) @@  \* su -> U+0633+U+0648
  (<<115, 101>> :> <<1587, 1610>>) @@  \* se -> U+0633+U+064A
  (<<115, 111>> :> <<1587, 1608>>) @@  \* so -> U+0633+U+0648
  (<<116, 97>> :> <<1578, 1575>>) @@  \* ta -> U+062A+U+0627
  (<<99, 104, 105>> :> <<1578, 1588, 1610>>) @@  \* chi -> U+062A+U+0634+U+064A
  (<<116, 115, 117>> :> <<1578, 1587, 1608>>) @@  \* tsu -> U+062A+U+0633+U+0648
  (<<116, 117>> :> <<1578, 1587, 1608>>) @@  \* tu -> U+062A+U+0633+U+0648
  (<<116, 101>> :> <<1578, 1610>>) @@  \* te -> U+062A+U+064A
  (<<116, 111>> :> <<1578, 1608>>) @@  \* to -> U+062A+U+0648
  (<<110, 97>> :> <<1606, 1575>>) @@  \* na -> U+0646+U+0627
  (<<110, 105>> :> <<1606, 1610>>) @@  \* ni -> U+0646+U+064A
  (<<110, 117>> :> <<1606, 1608>>) @@  \* nu -> U+0646+U+0648
  (<<110, 101>> :> <<1606, 1610>>) @@  \* ne -> U+0646+U+064A
  (<<110, 111>> :> <<1606, 1608>>) @@  \* no -> U+0646+U+0648
  (<<104, 97>> :> <<1607, 1575>>) @@  \* ha -> U+0647+U+0627
  (<<104, 105>> :> <<1607, 1610>>) @@  \* hi -> U+0647+U+064A
  (<<104, 117>> :> <<1607, 1608>>) @@  \* hu -> U+0647+U+0648
  (<<102, 117>> :> <<1601, 1608>>) @@  \* fu -> U+0641+U+0648
  (<<104, 101>> :> <<1607, 1610>>) @@  \* he -> U+0647+U+064A
  (<<104, 111>> :> <<1607, 1608>>) @@  \* ho -> U+0647+U+0648
  (<<109, 97>> :> <<1605, 1575>>) @@  \* ma -> U+0645+U+0627
  (<<109, 105>> :> <<1605, 1610>>) @@  \* mi -> U+0645+U+064A
  (<<109, 117>> :> <<1605, 1608>>) @@  \* mu -> U+0645+U+0648
  (<<109, 101>> :> <<1605, 1610>>) @@  \* me -> U+0645+U+064A
  (<<109, 111>> :> <<1605, 1608>>) @@  \* mo -> U+0645+U+0648
  (<<121, 97>> :> <<1610, 1575>>) @@  \* ya -> U+064A+U+0627
  (<<121, 117>> :> <<1610, 1608>>) @@  \* yu -> U+064A+U+0648
  (<<121, 111>> :> <<1610, 1608>>) @@  \* yo -> U+064A+U+0648
  (<<114, 97>> :> <<1585, 1575>>) @@  \* ra -> U+0631+U+0627
  (<<114, 105>> :> <<1585, 1610>>) @@  \* ri -> U+0631+U+064A
  (<<114, 117>> :> <<1585, 1608>>) @@  \* ru -> U+0631+U+0648
  (<<114, 101>> :> <<1585, 1610>>) @@  \* re -> U+0631+U+064A
  (<<114, 111>> :> <<1585, 1608>>) @@  \* ro -> U+0631+U+0648
  (<<119, 97>> :> <<1608, 1575>>) @@  \* wa -> U+0648+U+0627
  (<<119, 105>> :> <<1608, 1610>>) @@  \* wi -> U+0648+U+064A
  (<<119, 101>> :> <<1608, 1610>>) @@  \* we -> U+0648+U+064A
  (<<119, 111>> :> <<1608>>) @@  \* wo -> U+0648
  (<<110>> :> <<1606>>) @@  \* n -> U+0646
  (<<103, 97>> :> <<1594, 1575>>) @@  \* ga -> U+063A+U+0627
  (<<103, 105>> :> <<1594, 1610>>) @@  \* gi -> U+063A+U+064A
  (<<103, 117>> :> <<1594, 1608>>) @@  \* gu -> U+063A+U+0648
  (<<103, 101>> :> <<1594, 1610>>) @@  \* ge -> U+063A+U+064A
  (<<103, 111>> :> <<1594, 1608>>) @@  \* go -> U+063A+U+0648
  (<<122, 97>> :> <<1586, 1575>>) @@  \* za -> U+0632+U+0627
  (<<106, 105>> :> <<1580, 1610>>) @@  \* ji -> U+062C+U+064A
  (<<122, 117>> :> <<1586, 1608>>) @@  \* zu -> U+0632+U+0648
  (<<122, 101>> :> <<1586, 1610>>) @@  \* ze -> U+0632+U+064A
  (<<122, 111>> :> <<1586, 1608>>) @@  \* zo -> U+0632+U+0648
  (<<100, 97>> :> <<1583, 1575>>) @@  \* da -> U+062F+U+0627
  (<<100, 105>> :> <<1583, 1610>>) @@  \* di -> U+062F+U+064A
  (<<100, 117>> :> <<1583, 1608>>) @@  \* du -> U+062F+U+0648
  (<<100, 101>> :> <<1583, 1610>>) @@  \* de -> U+062F+U+064A
  (<<100, 111>> :> <<1583, 1608>>) @@  \* do -> U+062F+U+0648
  (<<98, 97>> :> <<1576, 1575>>) @@  \* ba -> U+0628+U+0627
  (<<98, 105>> :> <<1576, 1610>>) @@  \* bi -> U+0628+U+064A
  (<<98, 117>> :> <<1576, 1608>>) @@  \* bu -> U+0628+U+0648
  (<<98, 101>> :> <<1576, 1610>>) @@  \* be -> U+0628+U+064A
  (<<98, 111>> :> <<1576, 1608>>) @@  \* bo -> U+0628+U+0648
  (<<112, 97>> :> <<1576, 1575>>) @@  \* pa -> U+0628+U+0627
  (<<112, 105>> :> <<1576, 1610>>) @@  \* pi -> U+0628+U+064A
  (<<112, 117>> :> <<1576, 1608>>) @@  \* pu -> U+0628+U+0648
  (<<112, 101>> :> <<1576, 1610>>) @@  \* pe -> U+0628+U+064A
  (<<112, 111>> :> <<1576, 1608>>)  \* po -> U+0628+U+0648

\* generate_multilang_quickstatements.py ARABIC_YOON
ARABIC_YOON ==
  (<<107, 121, 97>> :> <<1603, 1610, 1575>>) @@  \* kya -> U+0643+U+064A+U+0627
  (<<107, 121, 117>> :> <<1603, 1610, 1608>>) @@  \* kyu -> U+0643+U+064A+U+0648
  (<<107, 121, 111>> :> <<1603, 1610, 1608>>) @@  \* kyo -> U+0643+U+064A+U+0648
  (<<115, 104, 97>> :> <<1588, 1575>>) @@  \* sha -> U+0634+U+0627
  (<<115, 104, 117>> :> <<1588, 1608>>) @@  \* shu -> U+0634+U+0648
  (<<115, 104, 111>> :> <<1588, 1608>>) @@  \* sho -> U+0634+U+0648
  (<<99, 104, 97>> :> <<1578, 1588, 1575>>) @@  \* cha -> U+062A+U+0634+U+0627
  (<<99, 104, 117>> :> <<1578, 1588, 1608>>) @@  \* chu -> U+062A+U+0634+U+0648
  (<<99, 104, 111>> :> <<1578, 1588, 1608>>) @@  \* cho -> U+062A+U+0634+U+0648
  (<<110, 121, 97>> :> <<1606, 1610, 1575>>) @@  \* nya -> U+0646+U+064A+U+0627
  (<<110, 121, 117>> :> <<1606, 1610, 1608>>) @@  \* nyu -> U+0646+U+064A+U+0648
  (<<110, 121, 111>> :> <<1606, 1610, 1608>>) @@  \* nyo -> U+0646+U+064A+U+0648
  (<<104, 121, 97>> :> <<1607, 1610, 1575>>) @@  \* hya -> U+0647+U+064A+U+0627
  (<<104, 121, 117>> :> <<1607, 1610, 1608>>) @@  \* hyu -> U+0647+U+064A+U+0648
  (<<104, 121, 111>> :> <<1607, 1610, 1608>>) @@  \* hyo -> U+0647+U+064A+U+0648
  (<<109, 121, 97>> :> <<1605, 1610, 1575>>) @@  \* mya -> U+0645+U+064A+U+0627
  (<<109, 121, 117>> :> <<1605, 1610, 1608>>) @@  \* myu -> U+0645+U+064A+U+0648
  (<<109, 121, 111>> :> <<1605, 1610, 1608>>) @@  \* myo -> U+0645+U+064A+U+0648
  (<<114, 121, 97>> :> <<1585, 1610, 1575>>) @@  \* rya -> U+0631+U+064A+U+0627
  (<<114, 121, 117>> :> <<1585, 1610, 1608>>) @@  \* ryu -> U+0631+U+064A+U+0648
  (<<114, 121, 111>> :> <<1585, 1610, 1608>>) @@  \* ryo -> U+0631+U+064A+U+0648
  (<<103, 121, 97>> :> <<1594, 1610, 1575>>) @@  \* gya -> U+063A+U+064A+U+0627
  (<<103, 121, 117>> :> <<1594, 1610, 1608>>) @@  \* gyu -> U+063A+U+064A+U+0648
  (<<103, 121, 111>> :> <<1594, 1610, 1608>>) @@  \* gyo -> U+063A+U+064A+U+0648
  (<<106, 97>> :> <<1580, 1575>>) @@  \* ja -> U+062C+U+0627
  (<<106, 117>> :> <<1580, 1608>>) @@  \* ju -> U+062C+U+0648
  (<<106, 111>> :> <<1580, 1608>>) @@  \* jo -> U+062C+U+0648
  (<<98, 121, 97>> :> <<1576, 1610, 1575>>) @@  \* bya -> U+0628+U+064A+U+0627
  (<<98, 121, 117>> :> <<1576, 1610, 1608>>) @@  \* byu -> U+0628+U+064A+U+0648
  (<<98, 121, 111>> :> <<1576, 1610, 1608>>) @@  \* byo -> U+0628+U+064A+U+0648
  (<<112, 121, 97>> :> <<1576, 1610, 1575>>) @@  \* pya -> U+0628+U+064A+U+0627
  (<<112, 121, 117>> :> <<1576, 1610, 1608>>) @@  \* pyu -> U+0628+U+064A+U+0648
  (<<112, 121, 111>> :> <<1576, 1610, 1608>>) @@  \* pyo -> U+0628+U+064A+U+0648
  (<<100, 121, 97>> :> <<1583, 1610, 1575>>) @@  \* dya -> U+062F+U+064A+U+0627
  (<<100, 121, 117>> :> <<1583, 1610, 1608>>) @@  \* dyu -> U+062F+U+064A+U+0648
  (<<100, 121, 111>> :> <<1583, 1610, 1608>>)  \* dyo -> U+062F+U+064A+U+0648

\* generate_multilang_quickstatements.py HINDI_INITIAL
HINDI_INITIAL ==
  (<<97>> :> <<2309>>) @@  \* a -> U+0905
  (<<105>> :> <<2311>>) @@  \* i -> U+0907
  (<<117>> :> <<2313>>) @@  \* u -> U+0909
  (<<101>> :> <<2319>>) @@  \* e -> U+090F
  (<<111>> :> <<2323>>)  \* o -> U+0913

\* generate_multilang_quickstatements.py HINDI_BASE
HINDI_BASE ==
  (<<97>> :> <<2309>>) @@  \* a -> U+0905
  (<<105>> :> <<2311>>) @@  \* i -> U+0907
  (<<117>> :> <<2313>>) @@  \* u -> U+0909
  (<<101>> :> <<2319>>) @@  \* e -> U+090F
  (<<111>> :> <<2323>>) @@  \* o -> U+0913
  (<<107, 97>> :> <<2325>>) @@  \* ka -> U+0915
  (<<107, 105>> :> <<2325, 2367>>) @@  \* ki -> U+0915+U+093F
  (<<107, 117>> :> <<2325, 2369>>) @@  \* ku -> U+0915+U+0941
  (<<107, 101>> :> <<2325, 2375>>) @@  \* ke -> U+0915+U+0947
  (<<107, 111>> :> <<2325, 2379>>) @@  \* ko -> U+0915+U+094B
  (<<115, 97>> :> <<2360>>) @@  \* sa -> U+0938
  (<<115, 104, 105>> :> <<2358, 2367>>) @@  \* shi -> U+0936+U+093F
  (<<115, 117>> :> <<2360, 2369>>) @@  \* su -> U+0938+U+0941
  (<<115, 101>> :> <<2360, 2375>>) @@  \* se -> U+0938+U+0947
  (<<115, 111>> :> <<2360, 2379>>) @@  \* so -> U+0938+U+094B
  (<<116, 97>> :> <<2340>>) @@  \* ta -> U+0924
  (<<99, 104, 105>> :> <<2330, 2367>>) @@  \* chi -> U+091A+U+093F
  (<<116, 115, 117>> :> <<2340, 2381, 2360, 2369>>) @@  \* tsu -> U+0924+U+094D+U+0938+U+0941
  (<<116, 117>> :> <<2340, 2369>>) @@  \* tu -> U+0924+U+0941
  (<<116, 101>> :> <<2340, 2375>>) @@  \* te -> U+0924+U+0947
  (<<116, 111>> :> <<2340, 2379>>) @@  \* to -> U+0924+U+094B
  (<<110, 97>> :> <<2344>>) @@  \* na -> U+0928
  (<<110, 105>> :> <<2344, 2367>>) @@  \* ni -> U+0928+U+093F
  (<<110, 117>> :> <<2344, 2369>>) @@  \* nu -> U+0928+U+0941
  (<<110, 101>> :> <<2344, 2375>>) @@  \* ne -> U+0928+U+0947
  (<<110, 111>> :> <<2344, 2379>>) @@  \* no -> U+0928+U+094B
  (<<104, 97>> :> <<2361>>) @@  \* ha -> U+0939
  (<<104, 105>> :> <<2361, 2367>>) @@  \* hi -> U+0939+U+093F
  (<<104, 117>> :> <<2361, 2369>>) @@  \* hu -> U+0939+U+0941
  (<<102, 117>> :> <<2347, 2364, 2369>>) @@  \* fu -> U+092B+U+093C+U+0941
  (<<104, 101>> :> <<2361, 2375>>) @@  \* he -> U+0939+U+0947
  (<<104, 111>> :> <<2361, 2379>>) @@  \* ho -> U+0939+U+094B
  (<<109, 97>> :> <<2350>>) @@  \* ma -> U+092E
  (<<109, 105>> :> <<2350, 2367>>) @@  \* mi -> U+092E+U+093F
  (<<109, 117>> :> <<2350, 2369>>) @@  \* mu -> U+092E+U+0941
  (<<109, 101>> :> <<2350, 2375>>) @@  \* me -> U+092E+U+0947
  (<<109, 111>> :> <<2350, 2379>>) @@  \* mo -> U+092E+U+094B
  (<<121, 97>> :> <<2351>>) @@  \* ya -> U+092F
  (<<121, 117>> :> <<2351, 2369>>) @@  \* yu -> U+092F+U+0941
  (<<121, 111>> :> <<2351, 2379>>) @@  \* yo -> U+092F+U+094B
  (<<114, 97>> :> <<2352>>) @@  \* ra -> U+0930
  (<<114, 105>> :> <<2352, 2367>>) @@  \* ri -> U+0930+U+093F
  (<<114, 117>> :> <<2352, 2369>>) @@  \* ru -> U+0930+U+0941
  (<<114, 101>> :> <<2352, 2375>>) @@  \* re -> U+0930+U+0947
  (<<114, 111>> :> <<2352, 2379>>) @@  \* ro -> U+0930+U+094B
  (<<119, 97>> :> <<2357>>) @@  \* wa -> U+0935
  (<<119, 105>> :> <<2357, 2367>>) @@  \* wi -> U+0935+U+093F
  (<<119, 101>> :> <<2357, 2375>>) @@  \* we -> U+0935+U+0947
  (<<119, 111>> :> <<2357, 2379>>) @@  \* wo -> U+0935+U+094B
  (<<110>> :> <<2344>>) @@  \* n -> U+0928
  (<<103, 97>> :> <<2327>>) @@  \* ga -> U+0917
  (<<103, 105>> :> <<2327, 2367>>) @@  \* gi -> U+0917+U+093F
  (<<103, 117>> :> <<2327, 2369>>) @@  \* gu -> U+0917+U+0941
  (<<103, 101>> :> <<2327, 2375>>) @@  \* ge -> U+0917+U+0947
  (<<103, 111>> :> <<2327, 2379>>) @@  \* go -> U+0917+U+094B
  (<<122, 97>> :> <<2332, 2364>>) @@  \* za -> U+091C+U+093C
  (<<106, 105>> :> <<2332, 2367>>) @@  \* ji -> U+091C+U+093F
  (<<122, 117>> :> <<2332, 2364, 2369>>) @@  \* zu -> U+091C+U+093C+U+0941
  (<<122, 101>> :> <<2332, 2364, 2375>>) @@  \* ze -> U+091C+U+093C+U+0947
  (<<122, 111>> :> <<2332, 2364, 2379>>) @@  \* zo -> U+091C+U+093C+U+094B
  (<<100, 97>> :> <<2342>>) @@  \* da -> U+0926
  (<<100, 105>> :> <<2342, 2367>>) @@  \* di -> U+0926+U+093F
  (<<100, 117>> :> <<2342, 2369>>) @@  \* du -> U+0926+U+0941
  (<<100, 101>> :> <<2342, 2375>>) @@  \* de -> U+0926+U+0947
  (<<100, 111>> :> <<2342, 2379>>) @@  \* do -> U+0926+U+094B
  (<<98, 97>> :> <<2348>>) @@  \* ba -> U+092C
  (<<98, 105>> :> <<2348, 2367>>) @@  \* bi -> U+092C+U+093F
  (<<98, 117>> :> <<2348, 2369>>) @@  \* bu -> U+092C+U+0941
  (<<98, 101>> :> <<2348, 2375>>) @@  \* be -> U+092C+U+0947
  (<<98, 111>> :> <<2348, 2379>>) @@  \* bo -> U+092C+U+094B
  (<<112, 97>> :> <<2346>>) @@  \* pa -> U+092A
  (<<112, 105>> :> <<2346, 2367>>) @@  \* pi -> U+092A+U+093F
  (<<112, 117>> :> <<2346, 2369>>) @@  \* pu -> U+092A+U+0941
  (<<112, 101>> :> <<2346, 2375>>) @@  \* pe -> U+092A+U+0947
  (<<112, 111>> :> <<2346, 2379>>)  \* po -> U+092A+U+094B

\* generate_multilang_quickstatements.py HINDI_YOON
HINDI_YOON ==
  (<<107, 121, 97>> :> <<2325, 2381, 2351>>) @@  \* kya -> U+0915+U+094D+U+092F
  (<<107, 121, 117>> :> <<2325, 2381, 2351, 2369>>) @@  \* kyu -> U+0915+U+094D+U+092F+U+0941
  (<<107, 121, 111>> :> <<2325, 2381, 2351, 2379>>) @@  \* kyo -> U+0915+U+094D+U+092F+U+094B
  (<<115, 104, 97>> :> <<2358>>) @@  \* sha -> U+0936
  (<<115, 104, 117>> :> <<2358, 2369>>) @@  \* shu -> U+0936+U+0941
  (<<115, 104, 111>> :> <<2358, 2379>>) @@  \* sho -> U+0936+U+094B
  (<<99, 104, 97>> :> <<2330>>) @@  \* cha -> U+091A
  (<<99, 104, 117>> :> <<2330, 2369>>) @@  \* chu -> U+091A+U+0941
  (<<99, 104, 111>> :> <<2330, 2379>>) @@  \* cho -> U+091A+U+094B
  (<<110, 121, 97>> :> <<2344, 2381, 2351>>) @@  \* nya -> U+0928+U+094D+U+092F
  (<<110, 121, 117>> :> <<2344, 2381, 2351, 2369>>) @@  \* nyu -> U+0928+U+094D+U+092F+U+0941
  (<<110, 121, 111>> :> <<2344, 2381, 2351, 2379>>) @@  \* nyo -> U+0928+U+094D+U+092F+U+094B
  (<<104, 121, 97>> :> <<2361, 2381, 2351>>) @@  \* hya -> U+0939+U+094D+U+092F
  (<<104, 121, 117>> :> <<2361, 2381, 2351, 2369>>) @@  \* hyu -> U+0939+U+094D+U+092F+U+0941
  (<<104, 121, 111>> :> <<2361, 2381, 2351, 2379>>) @@  \* hyo -> U+0939+U+094D+U+092F+U+094B
  (<<109, 121, 97>> :> <<2350, 2381, 2351>>) @@  \* mya -> U+092E+U+094D+U+092F
  (<<109, 121, 117>> :> <<2350, 2381, 2351, 2369>>) @@  \* myu -> U+092E+U+094D+U+092F+U+0941
  (<<109, 121, 111>> :> <<2350, 2381, 2351, 2379>>) @@  \* myo -> U+092E+U+094D+U+092F+U+094B
  (<<114, 121, 97>> :> <<2352, 2381, 2351>>) @@  \* rya -> U+0930+U+094D+U+092F
  (<<114, 121, 117>> :> <<2352, 2381, 2351, 2369>>) @@  \* ryu -> U+0930+U+094D+U+092F+U+0941
  (<<114, 121, 111>> :> <<2352, 2381, 2351, 2379>>) @@  \* ryo -> U+0930+U+094D+U+092F+U+094B
  (<<103, 121, 97>> :> <<2327, 2381, 2351>>) @@  \* gya -> U+0917+U+094D+U+092F
  (<<103, 121, 117>> :> <<2327, 2381, 2351, 2369>>) @@  \* gyu -> U+0917+U+094D+U+092F+U+0941
  (<<103, 121, 111>> :> <<2327, 2381, 2351, 2379>>) @@  \* gyo -> U+0917+U+094D+U+092F+U+094B
  (<<106, 97>> :> <<2332>>) @@  \* ja -> U+091C
  (<<106, 117>> :> <<2332, 2369>>) @@  \* ju -> U+091C+U+0941
  (<<106, 111>> :> <<2332, 2379>>) @@  \* jo -> U+091C+U+094B
  (<<98, 121, 97>> :> <<2348, 2381, 2351>>) @@  \* bya -> U+092C+U+094D+U+092F
  (<<98, 121, 117>> :> <<2348, 2381, 2351, 2369>>) @@  \* byu -> U+092C+U+094D+U+092F+U+0941
  (<<98, 121, 111>> :> <<2348, 2381, 2351, 2379>>) @@  \* byo -> U+092C+U+094D+U+092F+U+094B
  (<<112, 121, 97>> :> <<2346, 2381, 2351>>) @@  \* pya -> U+092A+U+094D+U+092F
  (<<112, 121, 117>> :> <<2346, 2381, 2351, 2369>>) @@  \* pyu -> U+092A+U+094D+U+092F+U+0941
  (<<112, 121, 111>> :> <<2346, 2381, 2351, 2379>>) @@  \* pyo -> U+092A+U+094D+U+092F+U+094B
  (<<100, 121, 97>> :> <<2342, 2381, 2351>>) @@  \* dya -> U+0926+U+094D+U+092F
  (<<100, 121, 117>> :> <<2342, 2381, 2351, 2369>>) @@  \* dyu -> U+0926+U+094D+U+092F+U+0941
  (<<100, 121, 111>> :> <<2342, 2381, 2351, 2379>>)  \* dyo -> U+0926+U+094D+U+092F+U+094B

\* generate_chinese_quickstatements.py KANA_TO_CHINESE: kana (1 or 2 characters) -> Chinese characters;
\* a key written twice in the source keeps its last value
KANA_TO_CHINESE ==
  (<<12398>> :> <<20043>>) @@  \* U+306E -> U+4E4B
  (<<12534>> :> <<20010>>) @@  \* U+30F6 -> U+4E2A
  (<<12465>> :> <<27671>>) @@  \* U+30B1 -> U+6C17
  (<<12364>> :> <<36154>>) @@  \* U+304C -> U+8D3A
  (<<12534, 19992>> :> <<20010, 19992>>) @@  \* U+30F6+U+4E18 -> U+4E2A+U+4E18
  (<<12354>> :> <<38463>>) @@  \* U+3042 -> U+963F
  (<<12356>> :> <<20234>>) @@  \* U+3044 -> U+4F0A
  (<<12358>> :> <<23431>>) @@  \* U+3046 -> U+5B87
  (<<12360>> :> <<27743>>) @@  \* U+3048 -> U+6C5F
  (<<12362>> :> <<26044>>) @@  \* U+304A -> U+65BC
  (<<12363>> :> <<21152>>) @@  \* U+304B -> U+52A0
  (<<12365>> :> <<32426>>) @@  \* U+304D -> U+7EAA
  (<<12367>> :> <<20037>>) @@  \* U+304F -> U+4E45
  (<<12369>> :> <<27671>>) @@  \* U+3051 -> U+6C17
  (<<12371>> :> <<21476>>) @@  \* U+3053 -> U+53E4
  (<<12373>> :> <<20304>>) @@  \* U+3055 -> U+4F50
  (<<12375>> :> <<24535>>) @@  \* U+3057 -> U+5FD7
  (<<12377>> :> <<39035>>) @@  \* U+3059 -> U+987B
  (<<12379>> :> <<19990>>) @@  \* U+305B -> U+4E16
  (<<12381>> :> <<26365>>) @@  \* U+305D -> U+66FD
  (<<12383>> :> <<22810>>) @@  \* U+305F -> U+591A
  (<<12385>> :> <<30693>>) @@  \* U+3061 -> U+77E5
  (<<12388>> :> <<27941>>) @@  \* U+3064 -> U+6D25
  (<<12390>> :> <<22825>>) @@  \* U+3066 -> U+5929
  (<<12392>> :> <<37117>>) @@  \* U+3068 -> U+90FD
  (<<12394>> :> <<22856>>) @@  \* U+306A -> U+5948
  (<<12395>> :> <<20161>>) @@  \* U+306B -> U+4EC1
  (<<12396>> :> <<22900>>) @@  \* U+306C -> U+5974
  (<<12397>> :> <<31074>>) @@  \* U+306D -> U+7962
  (<<12399>> :> <<27874>>) @@  \* U+306F -> U+6CE2
  (<<12402>> :> <<27604>>) @@  \* U+3072 -> U+6BD4
  (<<12405>> :> <<24067>>) @@  \* U+3075 -> U+5E03
  (<<12408>> :> <<37096>>) @@  \* U+3078 -> U+90E8
  (<<12411>> :> <<20445>>) @@  \* U+307B -> U+4FDD
  (<<12414>> :> <<19975>>) @@  \* U+307E -> U+4E07
  (<<12415>> :> <<32654>>) @@  \* U+307F -> U+7F8E
  (<<12416>> :> <<27494>>) @@  \* U+3080 -> U+6B66
  (<<12417>> :> <<22899>>) @@  \* U+3081 -> U+5973
  (<<12418>> :> <<33538>>) @@  \* U+3082 -> U+8302
  (<<12420>> :> <<20063>>) @@  \* U+3084 -> U+4E5F
  (<<12422>> :> <<30001>>) @@  \* U+3086 -> U+7531
  (<<12424>> :> <<19982>>) @@  \* U+3088 -> U+4E0E
  (<<12425>> :> <<33391>>) @@  \* U+3089 -> U+826F
  (<<12426>> :> <<21033>>) @@  \* U+308A -> U+5229
  (<<12427>> :> <<30041>>) @@  \* U+308B -> U+7559
  (<<12428>> :> <<31036>>) @@  \* U+308C -> U+793C
  (<<12429>> :> <<36335>>) @@  \* U+308D -> U+8DEF
  (<<12431>> :> <<21644>>) @@  \* U+308F -> U+548C
  (<<12432>> :> <<28858>>) @@  \* U+3090 -> U+70BA
  (<<12433>> :> <<24693>>) @@  \* U+3091 -> U+6075
  (<<12434>> :> <<20046>>) @@  \* U+3092 -> U+4E4E
  (<<12435>> :> <<26080>>) @@  \* U+3093 -> U+65E0
  (<<12450>> :> <<38463>>) @@  \* U+30A2 -> U+963F
  (<<12452>> :> <<20234>>) @@  \* U+30A4 -> U+4F0A
  (<<12454>> :> <<23431>>) @@  \* U+30A6 -> U+5B87
  (<<12456>> :> <<27743>>) @@  \* U+30A8 -> U+6C5F
  (<<12458>> :> <<26044>>) @@  \* U+30AA -> U+65BC
  (<<12459>> :> <<21152>>) @@  \* U+30AB -> U+52A0
  (<<12461>> :> <<32426>>) @@  \* U+30AD -> U+7EAA
  (<<12463>> :> <<20037>>) @@  \* U+30AF -> U+4E45
  (<<12467>> :> <<21476>>) @@  \* U+30B3 -> U+53E4
  (<<12469>> :> <<20304>>) @@  \* U+30B5 -> U+4F50
  (<<12471>> :> <<24535>>) @@  \* U+30B7 -> U+5FD7
  (<<12473>> :> <<39035>>) @@  \* U+30B9 -> U+987B
  (<<12475>> :> <<19990>>) @@  \* U+30BB -> U+4E16
  (<<12477>> :> <<26365>>) @@  \* U+30BD -> U+66FD
  (<<12479>> :> <<22810>>) @@  \* U+30BF -> U+591A
  (<<12481>> :> <<30693>>) @@  \* U+30C1 -> U+77E5
  (<<12484>> :> <<27941>>) @@  \* U+30C4 -> U+6D25
  (<<12486>> :> <<22825>>) @@  \* U+30C6 -> U+5929
  (<<12488>> :> <<37117>>) @@  \* U+30C8 -> U+90FD
  (<<12490>> :> <<22856>>) @@  \* U+30CA -> U+5948
  (<<12491>> :> <<20161>>) @@  \* U+30CB -> U+4EC1
  (<<12492>> :> <<22900>>) @@  \* U+30CC -> U+5974
  (<<12493>> :> <<31074>>) @@  \* U+30CD -> U+7962
  (<<12494>> :> <<20043>>) @@  \* U+30CE -> U+4E4B
  (<<12495>> :> <<27874>>) @@  \* U+30CF -> U+6CE2
  (<<12498>> :> <<27604>>) @@  \* U+30D2 -> U+6BD4
  (<<12501>> :> <<24067>>) @@  \* U+30D5 -> U+5E03
  (<<12504>> :> <<37096>>) @@  \* U+30D8 -> U+90E8
  (<<12507>> :> <<20445>>) @@  \* U+30DB -> U+4FDD
  (<<12510>> :> <<19975>>) @@  \* U+30DE -> U+4E07
  (<<12511>> :> <<32654>>) @@  \* U+30DF -> U+7F8E
  (<<12512>> :> <<27494>>) @@  \* U+30E0 -> U+6B66
  (<<12513>> :> <<22899>>) @@  \* U+30E1 -> U+5973
  (<<12514>> :> <<33538>>) @@  \* U+30E2 -> U+8302
  (<<12516>> :> <<20063>>) @@  \* U+30E4 -> U+4E5F
  (<<12518>> :> <<30001>>) @@  \* U+30E6 -> U+7531
  (<<12520>> :> <<19982>>) @@  \* U+30E8 -> U+4E0E
  (<<12521>> :> <<33391>>) @@  \* U+30E9 -> U+826F
  (<<12522>> :> <<21033>>) @@  \* U+30EA -> U+5229
  (<<12523>> :> <<30041>>) @@  \* U+30EB -> U+7559
  (<<12524>> :> <<31036>>) @@  \* U+30EC -> U+793C
  (<<12525>> :> <<36335>>) @@  \* U+30ED -> U+8DEF
  (<<12527>> :> <<21644>>) @@  \* U+30EF -> U+548C
  (<<12528>> :> <<28858>>) @@  \* U+30F0 -> U+70BA
  (<<12529>> :> <<24693>>) @@  \* U+30F1 -> U+6075
  (<<12530>> :> <<20046>>) @@  \* U+30F2 -> U+4E4E
  (<<12531>> :> <<26080>>) @@  \* U+30F3 -> U+65E0
  (<<12366>> :> <<20041>>) @@  \* U+304E -> U+4E49
  (<<12368>> :> <<20855>>) @@  \* U+3050 -> U+5177
  (<<12370>> :> <<19979>>) @@  \* U+3052 -> U+4E0B
  (<<12372>> :> <<21566>>) @@  \* U+3054 -> U+543E
  (<<12374>> :> <<24231>>) @@  \* U+3056 -> U+5EA7
  (<<12376>> :> <<27835>>) @@  \* U+3058 -> U+6CBB
  (<<12378>> :> <<22836>>) @@  \* U+305A -> U+5934
  (<<12380>> :> <<26159>>) @@  \* U+305C -> U+662F
  (<<12382>> :> <<26365>>) @@  \* U+305E -> U+66FD
  (<<12384>> :> <<22826>>) @@  \* U+3060 -> U+592A
  (<<12386>> :> <<27835>>) @@  \* U+3062 -> U+6CBB
  (<<12389>> :> <<27941>>) @@  \* U+3065 -> U+6D25
  (<<12391>> :> <<20986>>) @@  \* U+3067 -> U+51FA
  (<<12393>> :> <<22303>>) @@  \* U+3069 -> U+571F
  (<<12400>> :> <<39532>>) @@  \* U+3070 -> U+9A6C
  (<<12403>> :> <<23614>>) @@  \* U+3073 -> U+5C3E
  (<<12406>> :> <<27494>>) @@  \* U+3076 -> U+6B66
  (<<12409>> :> <<37096>>) @@  \* U+3079 -> U+90E8
  (<<12412>> :> <<27597>>) @@  \* U+307C -> U+6BCD
  (<<12401>> :> <<27874>>) @@  \* U+3071 -> U+6CE2
  (<<12404>> :> <<27604>>) @@  \* U+3074 -> U+6BD4
  (<<12407>> :> <<24067>>) @@  \* U+3077 -> U+5E03
  (<<12410>> :> <<37096>>) @@  \* U+307A -> U+90E8
  (<<12413>> :> <<20445>>) @@  \* U+307D -> U+4FDD
  (<<12460>> :> <<36154>>) @@  \* U+30AC -> U+8D3A
  (<<12462>> :> <<20041>>) @@  \* U+30AE -> U+4E49
  (<<12464>> :> <<20855>>) @@  \* U+30B0 -> U+5177
  (<<12466>> :> <<19979>>) @@  \* U+30B2 -> U+4E0B
  (<<12468>> :> <<21566>>) @@  \* U+30B4 -> U+543E
  (<<12470>> :> <<24231>>) @@  \* U+30B6 -> U+5EA7
  (<<12472>> :> <<27835>>) @@  \* U+30B8 -> U+6CBB
  (<<12474>> :> <<22836>>) @@  \* U+30BA -> U+5934
  (<<12476>> :> <<26159>>) @@  \* U+30BC -> U+662F
  (<<12478>> :> <<26365>>) @@  \* U+30BE -> U+66FD
  (<<12480>> :> <<22826>>) @@  \* U+30C0 -> U+592A
  (<<12482>> :> <<27835>>) @@  \* U+30C2 -> U+6CBB
  (<<12485>> :> <<27941>>) @@  \* U+30C5 -> U+6D25
  (<<12487>> :> <<20986>>) @@  \* U+30C7 -> U+51FA
  (<<12489>> :> <<22303>>) @@  \* U+30C9 -> U+571F
  (<<12496>> :> <<39532>>) @@  \* U+30D0 -> U+9A6C
  (<<12499>> :> <<23614>>) @@  \* U+30D3 -> U+5C3E
  (<<12502>> :> <<27494>>) @@  \* U+30D6 -> U+6B66
  (<<12505>> :> <<37096>>) @@  \* U+30D9 -> U+90E8
  (<<12508>> :> <<27597>>) @@  \* U+30DC -> U+6BCD
  (<<12497>> :> <<27874>>) @@  \* U+30D1 -> U+6CE2
  (<<12500>> :> <<27604>>) @@  \* U+30D4 -> U+6BD4
  (<<12503>> :> <<24067>>) @@  \* U+30D7 -> U+5E03
  (<<12506>> :> <<37096>>) @@  \* U+30DA -> U+90E8
  (<<12509>> :> <<20445>>) @@  \* U+30DD -> U+4FDD
  (<<12387>> :> <<>>) @@  \* U+3063 -> ""
  (<<12483>> :> <<>>) @@  \* U+30C3 -> ""
  (<<12419>> :> <<20063>>) @@  \* U+3083 -> U+4E5F
  (<<12421>> :> <<30001>>) @@  \* U+3085 -> U+7531
  (<<12423>> :> <<19982>>) @@  \* U+3087 -> U+4E0E
  (<<12515>> :> <<20063>>) @@  \* U+30E3 -> U+4E5F
  (<<12517>> :> <<30001>>) @@  \* U+30E5 -> U+7531
  (<<12519>> :> <<19982>>) @@  \* U+30E7 -> U+4E0E
  (<<12353>> :> <<38463>>) @@  \* U+3041 -> U+963F
  (<<12355>> :> <<20234>>) @@  \* U+3043 -> U+4F0A
  (<<12357>> :> <<23431>>) @@  \* U+3045 -> U+5B87
  (<<12359>> :> <<27743>>) @@  \* U+3047 -> U+6C5F
  (<<12361>> :> <<26044>>) @@  \* U+3049 -> U+65BC
  (<<12449>> :> <<38463>>) @@  \* U+30A1 -> U+963F
  (<<12451>> :> <<20234>>) @@  \* U+30A3 -> U+4F0A
  (<<12453>> :> <<23431>>) @@  \* U+30A5 -> U+5B87
  (<<12455>> :> <<27743>>) @@  \* U+30A7 -> U+6C5F
  (<<12457>> :> <<26044>>) @@  \* U+30A9 -> U+65BC
  (<<12540>> :> <<>>)  \* U+30FC -> ""

\* ------------------------------------------------------------------------
\* tokiponizer.py
\* ------------------------------------------------------------------------

VOWELS == {97, 101, 105, 111, 117}   \* "aeiou"

\* re.sub(r"[^\w]", "", text)
StripNonWord(s) == SelectSeq(s, IsWord)

\* .replace of the five macron vowels by their plain vowels
ReplaceMacrons(s) == [k \in 1..Len(s) |-> IF s[k] \in MACRON_LOWER THEN MacronBase(s[k]) ELSE s[k]]

\* normalize(text): NFKC, lower, strip non-word characters, replace macrons
normalize(s) == ReplaceMacrons(StripNonWord(Lower(NFKC(s))))

\* katakana_to_hiragana(text): U+30A1..U+30F6 moved down by 0x60
katakana_to_hiragana(s) ==
  [k \in 1..Len(s) |-> IF 12449 <= s[k] /\ s[k] <= 12534 THEN s[k] - 96 ELSE s[k]]

\* the iteration trying the 1-character key before the 2-character key
kana_step_single_first(s, pos, res) ==
  IF <<s[pos + 1]>> \in DOMAIN KANA_ROMAJI
  THEN <<pos + 1, res \o KANA_ROMAJI[<<s[pos + 1]>>]>>
  ELSE IF Slice(s, pos, 2) \in DOMAIN KANA_ROMAJI
       THEN <<pos + 2, res \o KANA_ROMAJI[Slice(s, pos, 2)]>>
       ELSE <<pos + 1, Append(res, s[pos + 1])>>

\* one iteration of the while loop of kana_to_romaji: <<i, out>> after it
kana_step(s, pos, res) ==
  IF Slice(s, pos, 2) \in DOMAIN KANA_ROMAJI
  THEN <<pos + 2, res \o KANA_ROMAJI[Slice(s, pos, 2)]>>
  ELSE IF <<s[pos + 1]>> \in DOMAIN KANA_ROMAJI
       THEN <<pos + 1, res \o KANA_ROMAJI[<<s[pos + 1]>>]>>
       ELSE <<pos + 1, Append(res, s[pos + 1])>>

RECURSIVE kana_scan(_, _, _)
\* the while loop of kana_to_romaji
kana_scan(s, pos, res) ==
  IF pos >= Len(s) THEN res
  ELSE LET st == kana_step(s, pos, res)
       IN kana_scan(s, st[1], st[2])

\* kana_to_romaji(text)
kana_to_romaji(s) == kana_scan(katakana_to_hiragana(s), 0, <<>>)

\* the sizes tried shortest first
SIZES_shortest_first == <<1, 2, 3>>

\* the sizes the tokenizers try at each position, in this order
SIZES == <<3, 2, 1>>

\* the size of the first chunk of SIZES found in the vocabulary at pos,
\* 0 when the for loop ends without a match
MatchSize(s, pos, vocabulary) ==
  LET hit == {k \in 1..Len(SIZES) : Slice(s, pos, SIZES[k]) \in vocabulary}
  IN IF hit = {} THEN 0 ELSE SIZES[CHOOSE k \in hit : \A j \in hit : k <= j]

\* the iteration with i += 1 after a match, whatever the size of the chunk
TokenizeStep_advance_one(s, pos, toks, vocabulary) ==
  LET size == MatchSize(s, pos, vocabulary)
  IN IF size = 0 THEN <<pos + 1, toks>>
     ELSE <<pos + 1, Append(toks, Slice(s, pos, size))>>

\* the iteration without the i += 1 of the for loop's else branch
TokenizeStep_no_skip(s, pos, toks, vocabulary) ==
  LET size == MatchSize(s, pos, vocabulary)
  IN IF size = 0 THEN <<pos, toks>>
     ELSE <<pos + size, Append(toks, Slice(s, pos, size))>>

\* one iteration of the tokenizers' while loop: <<i, tokens>> after it
TokenizeStep(s, pos, toks, vocabulary) ==
  LET size == MatchSize(s, pos, vocabulary)
  IN IF size = 0 THEN <<pos + 1, toks>>
     ELSE <<pos + size, Append(toks, Slice(s, pos, size))>>

RECURSIVE TokenizeLoop(_, _, _, _)
TokenizeLoop(s, pos, toks, vocabulary) ==
  IF pos >= Len(s) THEN toks
  ELSE LET st == TokenizeStep(s, pos, toks, vocabulary)
       IN TokenizeLoop(s, st[1], st[2], vocabulary)

\* chunk in YOON_MAP or chunk in BASE_MAP
TOKI_VOCABULARY == DOMAIN YOON_MAP \cup DOMAIN BASE_MAP

\* tokenize_romaji(text)
tokenize_romaji(s) == TokenizeLoop(s, 0, <<>>, TOKI_VOCABULARY)

\* the rendering loop of the renderers: YOON first, then BASE, else nothing
Render(toks, yoon, base) ==
  LET one(t) == IF t \in DOMAIN yoon THEN <<yoon[t]>>
                ELSE IF t \in DOMAIN base THEN <<base[t]>> ELSE <<>>
  IN Concat([k \in 1..Len(toks) |-> one(toks[k])])

\* the rule left out: every syllable as rendered
apply_h_position_skipped(syllables) == syllables

\* apply_h_position(syllables): a syllable starting with h gets k at index 0, p elsewhere
apply_h_position(syllables) ==
  [k \in 1..Len(syllables) |->
     LET syl == syllables[k]
     IN IF syl # <<>> /\ syl[1] = 104
        THEN (IF k = 1 THEN <<107>> ELSE <<112>>) \o Tail(syl)
        ELSE syl]

\* the iteration appending a vowel-initial syllable whole after the seam
\* has been replaced
dipthong_step_unconsumed(result, syl) ==
  LET prev == result[Len(result)]
      both == /\ prev # <<>> /\ syl # <<>>
              /\ prev[Len(prev)] \in VOWELS /\ syl[1] \in VOWELS
      pair == <<prev[Len(prev)], syl[1]>>
  IN IF both /\ pair \in DOMAIN DIPTHONGS
     THEN LET new_prev == SubSeq(prev, 1, Len(prev) - 1) \o DIPTHONGS[pair]
              replaced == [result EXCEPT ![Len(result)] = new_prev]
          IN IF Len(syl) = 1 THEN replaced ELSE Append(replaced, syl)
     ELSE Append(result, syl)

\* one iteration of the for loop of apply_dipthongs_to_syllables: result
\* after `syl`
dipthong_step(result, syl) ==
  LET prev == result[Len(result)]
      both == /\ prev # <<>> /\ syl # <<>>
              /\ prev[Len(prev)] \in VOWELS /\ syl[1] \in VOWELS
      pair == <<prev[Len(prev)], syl[1]>>
  IN IF both /\ pair \in DOMAIN DIPTHONGS
     THEN LET new_prev == SubSeq(prev, 1, Len(prev) - 1) \o DIPTHONGS[pair]
              replaced == [result EXCEPT ![Len(result)] = new_prev]
          IN IF Len(syl) = 1 THEN replaced ELSE Append(replaced, Tail(syl))
     ELSE Append(result, syl)

RECURSIVE dipthong_loop(_, _)
\* the for loop of apply_dipthongs_to_syllables over syllables[1:]
dipthong_loop(rest, result) ==
  IF rest = <<>> THEN result
  ELSE dipthong_loop(Tail(rest), dipthong_step(result, Head(rest)))

\* the pass left out: every syllable as it came
apply_dipthongs_to_syllables_skipped(syllables) == syllables

\* apply_dipthongs_to_syllables(syllables)
apply_dipthongs_to_syllables(syllables) ==
  IF syllables = <<>> THEN syllables
  ELSE dipthong_loop(Tail(syllables), <<Head(syllables)>>)

\* tokiponize(text): the list holding the word, or the empty list
tokiponize(s) ==
  LET toks == tokenize_romaji(kana_to_romaji(normalize(s)))
      syllables == apply_dipthongs_to_syllables(apply_h_position(Render(toks, YOON_MAP, BASE_MAP)))
      word == Capitalize(Concat(syllables))
  IN IF word # <<>> THEN <<word>> ELSE <<>>

\* ------------------------------------------------------------------------
\* koreanizer.py
\* ------------------------------------------------------------------------

HANGUL_BASE == 44032   \* 0xAC00
FINAL_NIEUN == 4       \* the batchim index of U+3134's final form
NIEUN == 12596         \* U+3134, the standalone jamo ROMAJI_TO_HANGUL gives for n
HANGUL_LAST == 55203   \* U+D7A3

\* _has_final(char)
_has_final(char) ==
  LET code == char - HANGUL_BASE
  IN IF code < 0 \/ code >= 11172 THEN FALSE ELSE code % 28 # 0

\* the jamo appended although the block has no final consonant
_add_nieun_batchim_appended(char) == <<char, NIEUN>>

\* _add_nieun_batchim(char): the string that replaces char
_add_nieun_batchim(char) ==
  LET code == char - HANGUL_BASE
  IN IF code < 0 \/ code >= 11172 THEN <<char, NIEUN>>
     ELSE IF code % 28 # 0 THEN <<char, NIEUN>>
     ELSE <<char + FINAL_NIEUN>>

\* chunk in YOON_TO_HANGUL or chunk in ROMAJI_TO_HANGUL
KOREAN_VOCABULARY == DOMAIN YOON_TO_HANGUL \cup DOMAIN ROMAJI_TO_HANGUL

\* tokenize_romaji_korean(text)
tokenize_romaji_korean(s) == TokenizeLoop(s, 0, <<>>, KOREAN_VOCABULARY)

\* every part appended as it is, no merge
merge_part_appended(merged, part) == Append(merged, part)

\* one iteration of the merge loop of koreanize: merged after `part`
merge_part(merged, part) ==
  IF part = <<NIEUN>> /\ merged # <<>>
  THEN LET prev == merged[Len(merged)]
           last_char == prev[Len(prev)]
       IN IF HANGUL_BASE <= last_char /\ last_char <= HANGUL_LAST /\ ~_has_final(last_char)
          THEN [merged EXCEPT ![Len(merged)] =
                  SubSeq(prev, 1, Len(prev) - 1) \o _add_nieun_batchim(last_char)]
          ELSE Append(merged, <<NIEUN>>)
  ELSE Append(merged, part)

RECURSIVE merge_loop(_, _)
merge_loop(hangul_parts, merged) ==
  IF hangul_parts = <<>> THEN merged
  ELSE merge_loop(Tail(hangul_parts), merge_part(merged, Head(hangul_parts)))

\* koreanize(text)
koreanize(s) ==
  LET toks == tokenize_romaji_korean(kana_to_romaji(normalize(s)))
      hangul_parts == Render(toks, YOON_TO_HANGUL, ROMAJI_TO_HANGUL)
  IN Concat(merge_loop(hangul_parts, <<>>))

\* ------------------------------------------------------------------------
\* generate_multilang_quickstatements.py
\* ------------------------------------------------------------------------

RECURSIVE SplitFrom(_, _, _, _)
\* str.split(): the maximal runs of non-whitespace characters
SplitFrom(s, k, word, words) ==
  IF k > Len(s) THEN (IF word = <<>> THEN words ELSE Append(words, word))
  ELSE IF IsSpace(s[k])
       THEN SplitFrom(s, k + 1, <<>>, IF word = <<>> THEN words ELSE Append(words, word))
       ELSE SplitFrom(s, k + 1, Append(word, s[k]), words)

Split(s) == SplitFrom(s, 1, <<>>, <<>>)

RECURSIVE Replace(_, _, _)
\* str.replace(old, new), old non-empty: left to right, non-overlapping
Replace(s, old, new) ==
  IF Len(s) < Len(old) THEN s
  ELSE IF SubSeq(s, 1, Len(old)) = old
       THEN new \o Replace(SubSeq(s, Len(old) + 1, Len(s)), old, new)
       ELSE <<s[1]>> \o Replace(Tail(s), old, new)

\* the lines shared by the four _..._word functions: NFKC, lower, macrons,
\* strip, kana_to_romaji, tokenize_romaji
word_tokens(word) ==
  tokenize_romaji(kana_to_romaji(StripNonWord(ReplaceMacrons(Lower(NFKC(word))))))

\* the loop with `t in initial` and no `idx == 0`
render_with_initial_anywhere(toks, yoon, base, initial) ==
  LET one(idx) ==
        LET t == toks[idx + 1]
        IN IF t \in DOMAIN yoon THEN <<yoon[t]>>
           ELSE IF t \in DOMAIN base
                THEN (IF t \in DOMAIN initial THEN <<initial[t]>> ELSE <<base[t]>>)
                ELSE <<>>
  IN Concat([k \in 1..Len(toks) |-> one(k - 1)])

\* the rendering loop of _hindify_word, _arabify_word and _farsify_word:
\* a token of the base table at idx 0 that the initial table holds is
\* rendered by the initial table
render_with_initial(toks, yoon, base, initial) ==
  LET one(idx) ==
        LET t == toks[idx + 1]
        IN IF t \in DOMAIN yoon THEN <<yoon[t]>>
           ELSE IF t \in DOMAIN base
                THEN (IF idx = 0 /\ t \in DOMAIN initial THEN <<initial[t]>> ELSE <<base[t]>>)
                ELSE <<>>
  IN Concat([k \in 1..Len(toks) |-> one(k - 1)])

\* parts of _hindify_word(word)
hindi_parts(word) == render_with_initial(word_tokens(word), HINDI_YOON, HINDI_BASE, HINDI_INITIAL)
_hindify_word(word) == Concat(hindi_parts(word))

\* parts of _arabify_word(word)
arabic_parts(word) == render_with_initial(word_tokens(word), ARABIC_YOON, ARABIC_BASE, ARABIC_INITIAL)
_arabify_word(word) == Concat(arabic_parts(word))

\* parts of _farsify_word(word)
farsi_parts(word) == render_with_initial(word_tokens(word), FARSI_YOON, FARSI_BASE, FARSI_INITIAL)
_farsify_word(word) == Concat(farsi_parts(word))

\* the join without the filter: " ".join(rendered)
join_nonempty_unfiltered(rendered) == JoinWith(<<32>>, rendered)

\* " ".join(w for w in rendered if w)
join_nonempty(rendered) == JoinWith(<<32>>, SelectSeq(rendered, LAMBDA w : w # <<>>))

\* hindify(name)
hindify(name) ==
  LET words == Split(name)
  IN join_nonempty([k \in 1..Len(words) |-> _hindify_word(words[k])])

\* arabify(name)
arabify(name) ==
  LET words == Split(name)
  IN join_nonempty([k \in 1..Len(words) |-> _arabify_word(words[k])])

\* farsify(name)
farsify(name) ==
  LET words == Split(name)
  IN join_nonempty([k \in 1..Len(words) |-> _farsify_word(words[k])])

\* _cyrillicize_word(word)
_cyrillicize_word(word) ==
  LET result == Concat(Render(word_tokens(word), CYRILLIC_YOON, CYRILLIC_BASE))
  IN IF result # <<>> THEN Capitalize(result) ELSE <<>>

\* cyrillicize(name, lang): for uk, U+044D -> U+0435 and U+0438 -> U+0456
cyrillicize(name, lang) ==
  LET words == Split(name)
      result == join_nonempty([k \in 1..Len(words) |-> _cyrillicize_word(words[k])])
  IN IF lang = "uk" THEN ReplaceChar(ReplaceChar(result, 1101, 1077), 1080, 1110) ELSE result

\* lithuanize(name): ch, sh, w in either case
lithuanize(name) ==
  LET r1 == Replace(Replace(name, <<67, 104>>, <<268>>), <<99, 104>>, <<269>>)
      r2 == Replace(Replace(r1, <<83, 104>>, <<352>>), <<115, 104>>, <<353>>)
  IN ReplaceChar(ReplaceChar(r2, 87, 86), 119, 118)

EndsWith(word, ending) ==
  Len(word) >= Len(ending) /\ SubSeq(word, Len(word) - Len(ending) + 1, Len(word)) = ending

\* word[:-n]
DropLast(word, n) == SubSeq(word, 1, Len(word) - n)

RECURSIVE first_rule_longer_cut(_, _, _)
\* the rule loop cutting one character more than the ending
first_rule_longer_cut(rules, probe, word) ==
  IF rules = <<>> THEN <<>>
  ELSE IF EndsWith(probe, rules[1][1])
       THEN <<DropLast(word, Len(rules[1][1]) + 1) \o rules[1][2]>>
       ELSE first_rule_longer_cut(Tail(rules), probe, word)

RECURSIVE first_rule(_, _, _)
\* for ending, repl in rules: if probe.endswith(ending): return word[:-len(ending)] + repl;
\* <<>> wrapped in a tuple when no rule matches
first_rule(rules, probe, word) ==
  IF rules = <<>> THEN <<>>
  ELSE IF EndsWith(probe, rules[1][1])
       THEN <<DropLast(word, Len(rules[1][1])) \o rules[1][2]>>
       ELSE first_rule(Tail(rules), probe, word)

LT_RULES_N == <<
  <<S(<<"a","n">>), S(<<"a","n","o">>)>>, <<S(<<"i","n">>), S(<<"i","n","o">>)>>,
  <<S(<<"u","n">>), S(<<"u","n","o">>)>>, <<S(<<"e","n">>), S(<<"e","n","o">>)>>,
  <<S(<<"o","n">>), S(<<"o","n","o">>)>> >>
LT_RULES_V == <<
  <<S(<<"a">>), S(<<"o","s">>)>>, <<S(<<"i">>), S(<<"i","o">>)>>,
  <<S(<<"u">>), S(<<"u","s">>)>>, <<S(<<"e">>), <<279, 115>> >>,    \* e -> U+0117 s
  <<S(<<"o">>), S(<<"o">>)>> >>

\* _decline_word_lithuanian(word)
_decline_word_lithuanian(word) ==
  LET lower == Lower(word)
      n == first_rule(LT_RULES_N, lower, word)
      v == first_rule(LT_RULES_V, lower, word)
  IN IF n # <<>> THEN n[1] ELSE IF v # <<>> THEN v[1] ELSE word

\* words with words[-1] = last
SetLast(words, last) == [words EXCEPT ![Len(words)] = last]

\* decline_lithuanian(name)
decline_lithuanian(name) ==
  LET words == Split(name)
  IN IF words = <<>> THEN name
     ELSE JoinWith(<<32>>, SetLast(words, _decline_word_lithuanian(words[Len(words)])))

\* U+0430 a, U+0438 i, U+0443 u, U+044D e, U+043E o, U+043D n
RU_RULES == <<
  <<<<1072, 1085>>, <<1072, 1085, 1072>>>>, <<<<1080, 1085>>, <<1080, 1085, 1072>>>>,
  <<<<1091, 1085>>, <<1091, 1085, 1072>>>>, <<<<1101, 1085>>, <<1101, 1085, 1072>>>>,
  <<<<1086, 1085>>, <<1086, 1085, 1072>>>> >>

\* "гкхжчшщ"
RU_VELAR_HUSH == {1075, 1082, 1093, 1078, 1095, 1096, 1097}

\* _decline_word_russian(word)
_decline_word_russian(word) ==
  LET n == first_rule(RU_RULES, word, word)
  IN IF n # <<>> THEN n[1]
     ELSE IF EndsWith(word, <<1072>>)
          THEN IF Len(word) >= 2 /\ word[Len(word) - 1] \in RU_VELAR_HUSH
               THEN DropLast(word, 1) \o <<1080>>
               ELSE DropLast(word, 1) \o <<1099>>
          ELSE word

\* every word declined, not only words[-1]
decline_russian_every_word(name) ==
  LET words == Split(name)
  IN IF words = <<>> THEN name
     ELSE JoinWith(<<32>>, [k \in 1..Len(words) |-> _decline_word_russian(words[k])])

\* decline_russian(name)
decline_russian(name) ==
  LET words == Split(name)
  IN IF words = <<>> THEN name
     ELSE JoinWith(<<32>>, SetLast(words, _decline_word_russian(words[Len(words)])))

\* U+0456 i, U+0435 e
UK_RULES == <<
  <<<<1072, 1085>>, <<1072, 1085, 1072>>>>, <<<<1110, 1085>>, <<1110, 1085, 1072>>>>,
  <<<<1091, 1085>>, <<1091, 1085, 1072>>>>, <<<<1077, 1085>>, <<1077, 1085, 1072>>>>,
  <<<<1086, 1085>>, <<1086, 1085, 1072>>>> >>

\* _decline_word_ukrainian(word)
_decline_word_ukrainian(word) ==
  LET n == first_rule(UK_RULES, word, word)
  IN IF n # <<>> THEN n[1]
     ELSE IF EndsWith(word, <<1072>>) THEN DropLast(word, 1) \o <<1080>> ELSE word

\* decline_ukrainian(name)
decline_ukrainian(name) ==
  LET words == Split(name)
  IN IF words = <<>> THEN name
     ELSE JoinWith(<<32>>, SetLast(words, _decline_word_ukrainian(words[Len(words)])))

\* the literals of format_label
TR_GRAND == <<32, 66, 252, 121, 252, 107, 32, 84, 97, 112, 305, 110, 97, 287, 305>>
TR_PLAIN == <<32, 84, 97, 112, 305, 110, 97, 287, 305>>
DE_GRAND == <<32, 71, 114, 111, 223, 115, 99, 104, 114, 101, 105, 110>>
DE_PLAIN == <<32, 83, 99, 104, 114, 101, 105, 110>>   \* " Schrein"
NL_SUFFIX == <<45, 115, 104, 114, 105, 106, 110>>   \* "-shrijn"
ES_GRAND == <<71, 114, 97, 110, 32, 83, 97, 110, 116, 117, 97, 114, 105, 111, 32>>   \* "Gran Santuario "
ES_PLAIN == <<83, 97, 110, 116, 117, 97, 114, 105, 111, 32>>   \* "Santuario "
IT_GRAND == <<71, 114, 97, 110, 100, 101, 32, 83, 97, 110, 116, 117, 97, 114, 105, 111, 32>>   \* "Grande Santuario "
IT_PLAIN == <<83, 97, 110, 116, 117, 97, 114, 105, 111, 32>>   \* "Santuario "
EU_GRAND == <<32, 115, 97, 110, 116, 117, 116, 101, 103, 105, 97, 32, 110, 97, 103, 117, 115, 105, 97>>   \* " santutegia nagusia"
EU_PLAIN == <<32, 115, 97, 110, 116, 117, 116, 101, 103, 105, 97>>   \* " santutegia"
LT_SUFFIX == <<32, 109, 97, 108, 100, 121, 107, 108, 97>>   \* " maldykla"
RU_GRAND == <<1041, 1086, 1083, 1100, 1096, 1086, 1081, 32, 1093, 1088, 1072, 1084, 32>>
RU_PLAIN == <<1061, 1088, 1072, 1084, 32>>
UK_GRAND == <<1042, 1077, 1083, 1080, 1082, 1077, 32, 1089, 1074, 1103, 1090, 1080, 1083, 1080, 1097, 1077, 32>>
UK_PLAIN == <<1057, 1074, 1103, 1090, 1080, 1083, 1080, 1097, 1077, 32>>
FA_GRAND == <<1605, 1593, 1576, 1583, 32, 1576, 1586, 1585, 1711, 32>>
FA_PLAIN == <<1605, 1593, 1576, 1583, 32>>
AR_PREFIX == <<1605, 1593, 1576, 1583, 32>>
AR_GRAND_SUFFIX == <<32, 1575, 1604, 1603, 1576, 1610, 1585>>
HI_GRAND == <<32, 2350, 2361, 2366, 32, 2350, 2306, 2342, 2367, 2352>>
HI_PLAIN == <<32, 2350, 2306, 2342, 2367, 2352>>

ALL_LANGS == <<"tr", "de", "nl", "es", "it", "eu", "lt", "ru", "uk", "fa", "ar", "arz", "hi">>

\* format_label(lang, name, is_grand): <<label>>, or <<>> for None
format_label(lang, name, is_grand) ==
  CASE lang = "tr" -> <<name \o (IF is_grand THEN TR_GRAND ELSE TR_PLAIN)>>
    [] lang = "de" -> <<name \o (IF is_grand THEN DE_GRAND ELSE DE_PLAIN)>>
    [] lang = "nl" -> <<name \o NL_SUFFIX>>
    [] lang = "es" -> <<(IF is_grand THEN ES_GRAND ELSE ES_PLAIN) \o name>>
    [] lang = "it" -> <<(IF is_grand THEN IT_GRAND ELSE IT_PLAIN) \o name>>
    [] lang = "eu" -> <<name \o (IF is_grand THEN EU_GRAND ELSE EU_PLAIN)>>
    [] lang = "lt" -> <<decline_lithuanian(lithuanize(name)) \o LT_SUFFIX>>
    [] lang = "ru" -> <<(IF is_grand THEN RU_GRAND ELSE RU_PLAIN)
                         \o decline_russian(cyrillicize(name, "ru"))>>
    [] lang = "uk" -> <<(IF is_grand THEN UK_GRAND ELSE UK_PLAIN)
                         \o decline_ukrainian(cyrillicize(name, "uk"))>>
    [] lang = "fa" -> <<(IF is_grand THEN FA_GRAND ELSE FA_PLAIN) \o farsify(name)>>
    [] lang = "ar" -> <<AR_PREFIX \o arabify(name)
                         \o (IF is_grand THEN AR_GRAND_SUFFIX ELSE <<>>)>>
    [] lang = "arz" -> <<AR_PREFIX \o ReplaceChar(arabify(name), 1594, 1580)
                          \o (IF is_grand THEN AR_GRAND_SUFFIX ELSE <<>>)>>
    [] lang = "hi" -> <<hindify(name) \o (IF is_grand THEN HI_GRAND ELSE HI_PLAIN)>>
    [] OTHER -> <<>>

\* ------------------------------------------------------------------------
\* generate_korean_quickstatements.py and generate_chinese_quickstatements.py:
\* the conversions of Japanese labels
\* ------------------------------------------------------------------------

\* '぀' <= char <= 'ゟ' or '゠' <= char <= 'ヿ'; is_kana(char)
is_kana(char) ==
  (12352 <= char /\ char <= 12447) \/ (12448 <= char /\ char <= 12543)

\* '一' <= c <= '鿿' or '㐀' <= c <= '䶿'
is_ideograph(char) ==
  (19968 <= char /\ char <= 40959) \/ (13312 <= char /\ char <= 19903)

\* a Hangul syllable standing for the sino-Korean readings hanja has (U+C2E0)
HANJA_READINGS == {49888}

\* hanja.translate(kanji_str, "substitution"), a library outside the
\* sources: every ideograph is replaced by its Hangul reading when the
\* library has one and is kept when it has none; any outcome is possible
hanja_translate(kanji_str) ==
  {t \in [1..Len(kanji_str) -> HANJA_READINGS \cup {kanji_str[k] : k \in 1..Len(kanji_str)}] :
     \A k \in 1..Len(kanji_str) : t[k] = kanji_str[k] \/ t[k] \in HANJA_READINGS}

\* a simplified ideograph standing for those OpenCC substitutes (U+5BAB)
T2S_SIMPLIFIED == {23467}

\* t2s.convert(intermediate), a library outside the sources: ideographs are
\* kept or replaced by simplified ideographs, every other character is kept
t2s_convert(intermediate) ==
  {t \in [1..Len(intermediate) ->
            T2S_SIMPLIFIED \cup {intermediate[k] : k \in 1..Len(intermediate)}] :
     \A k \in 1..Len(intermediate) :
        \/ t[k] = intermediate[k]
        \/ is_ideograph(intermediate[k]) /\ t[k] \in T2S_SIMPLIFIED}

\* the kana run left unconverted
flush_kana_dropped(result_parts, current_kana) == result_parts

\* result_parts after `if current_kana: result_parts.append(koreanize(kana_str))`
flush_kana(result_parts, current_kana) ==
  IF current_kana # <<>> THEN Append(result_parts, koreanize(current_kana))
  ELSE result_parts

\* the possible result_parts after `if current_kanji:
\* result_parts.append(hanja.translate(kanji_str, "substitution"))`
flush_kanji(result_parts, current_kanji) ==
  IF current_kanji # <<>>
  THEN {Append(result_parts, translated) : translated \in hanja_translate(current_kanji)}
  ELSE {result_parts}

\* the return statements of japanese_to_korean_hanja: <<>> is None
hanja_result(result_parts) ==
  LET result == Concat(result_parts)
  IN IF \E k \in 1..Len(result) : is_ideograph(result[k]) THEN <<>>
     ELSE IF result # <<>> THEN <<result>> ELSE <<>>

\* one iteration of the while loop of japanese_to_chinese: <<i, result>>
chinese_step(ja_label, pos, result) ==
  IF pos + 1 < Len(ja_label) /\ Slice(ja_label, pos, 2) \in DOMAIN KANA_TO_CHINESE
  THEN <<pos + 2, Append(result, KANA_TO_CHINESE[Slice(ja_label, pos, 2)])>>
  ELSE LET char == ja_label[pos + 1]
       IN IF <<char>> \in DOMAIN KANA_TO_CHINESE
          THEN <<pos + 1, Append(result, KANA_TO_CHINESE[<<char>>])>>
          ELSE <<pos + 1, Append(result, <<char>>)>>

\* ------------------------------------------------------------------------
\* The writers of the QuickStatements files
\* ------------------------------------------------------------------------

TAB == 9
NEWLINE == 10
QUOTE == 34

\* the characters of the language codes
LANG_CODE ==
  ("tok" :> <<116, 111, 107>>) @@
  ("ko" :> <<107, 111>>) @@
  ("tr" :> <<116, 114>>) @@
  ("de" :> <<100, 101>>) @@
  ("nl" :> <<110, 108>>) @@
  ("es" :> <<101, 115>>) @@
  ("it" :> <<105, 116>>) @@
  ("eu" :> <<101, 117>>) @@
  ("lt" :> <<108, 116>>) @@
  ("ru" :> <<114, 117>>) @@
  ("uk" :> <<117, 107>>) @@
  ("fa" :> <<102, 97>>) @@
  ("ar" :> <<97, 114>>) @@
  ("arz" :> <<97, 114, 122>>) @@
  ("hi" :> <<104, 105>>)

\* .replace('"', '""')
escape_quotes(label) == Replace(label, <<QUOTE>>, <<QUOTE, QUOTE>>)

\* f'{qid}\tL{lang}\t"{label}"\n'
record_line(qid, lang, label) ==
  qid \o <<TAB, 76>> \o LANG_CODE[lang] \o <<TAB, QUOTE>> \o label \o <<QUOTE, NEWLINE>>

\* f'# Source: ID "{id_label}" (romanization)'
comment_id(id_label) == <<35, 32, 83, 111, 117, 114, 99, 101, 58, 32, 73, 68, 32, 34>> \o id_label \o <<34, 32, 40, 114, 111, 109, 97, 110, 105, 122, 97, 116, 105, 111, 110, 41>>

\* f'# Source: JA "{ja_label}" (hanja reading)'
comment_ja(ja_label) == <<35, 32, 83, 111, 117, 114, 99, 101, 58, 32, 74, 65, 32, 34>> \o ja_label \o <<34, 32, 40, 104, 97, 110, 106, 97, 32, 114, 101, 97, 100, 105, 110, 103, 41>>

\* the write of write_quickstatements for one row of the file of lang
write_tok_row(f, lang, row) ==
  f \o record_line(row.qid, lang, escape_quotes(row.label))

\* the two writes of generate_korean_quickstatements.main for one row
write_ko_row(f, row) ==
  f \o row.comment \o <<NEWLINE>> \o record_line(row.qid, "ko", escape_quotes(row.label))

\* the write of generate_multilang_quickstatements.main for one row
write_lang_row(f, lang, row) ==
  f \o record_line(row.qid, lang, escape_quotes(row.label))

\* ------------------------------------------------------------------------
\* fetch_shrines_tokiponize.py and generate_korean_quickstatements.py: the
\* processing of the query bindings
\* ------------------------------------------------------------------------

\* fetch_shrines_tokiponize.py PREFIX_RULES: source language -> (raw prefix, normalized prefix), in order
PREFIX_RULES ==
  ("id" :>
     <<<<<<75, 117, 105, 108, 32, 65, 103, 117, 110, 103, 32>>, "Kuil Agung">>,
       <<<<75, 117, 105, 108, 32>>, "Kuil">>,
       <<<<87, 105, 104, 97, 114, 97, 32, 65, 103, 117, 110, 103, 32>>, "Wihara Agung">>,
       <<<<87, 105, 104, 97, 114, 97, 32>>, "Wihara">>>>) @@
  ("ru" :>
     <<<<<<1042, 1077, 1083, 1080, 1082, 1080, 1081, 32, 1093, 1088, 1072, 1084, 32>>, "Temple Grand">>,
       <<<<1061, 1088, 1072, 1084, 32>>, "Temple">>,
       <<<<1057, 1074, 1103, 1090, 1080, 1083, 1080, 1097, 1077, 32>>, "Shrine">>>>) @@
  ("uk" :>
     <<<<<<1042, 1077, 1083, 1080, 1082, 1080, 1081, 32, 1093, 1088, 1072, 1084, 32>>, "Temple Grand">>,
       <<<<1061, 1088, 1072, 1084, 32>>, "Temple">>,
       <<<<1057, 1074, 1103, 1090, 1080, 1083, 1080, 1097, 1077, 32>>, "Shrine">>>>) @@
  ("lt" :>
     <<<<<<68, 105, 100, 382, 105, 111, 106, 105, 32, 353, 118, 101, 110, 116, 121, 107, 108, 97, 32>>, "Temple Grand">>,
       <<<<352, 105, 110, 116, 111, 32, 353, 118, 101, 110, 116, 121, 107, 108, 97, 32>>, "Temple">>,
       <<<<352, 118, 101, 110, 116, 121, 107, 108, 97, 32>>, "Temple">>,
       <<<<77, 97, 108, 100, 121, 107, 108, 97, 32>>, "Shrine">>>>)

\* generate_korean_quickstatements.py KOREAN_SUFFIX: normalized prefix -> Korean suffix
KOREAN_SUFFIX ==
  ("Kuil" :> <<49888, 49324>>) @@  \* U+C2E0+U+C0AC
  ("Kuil Agung" :> <<45824, 49888, 49324>>) @@  \* U+B300+U+C2E0+U+C0AC
  ("Wihara" :> <<49324, 50896>>) @@  \* U+C0AC+U+C6D0
  ("Wihara Agung" :> <<45824, 49324, 50896>>)  \* U+B300+U+C0AC+U+C6D0

\* the default of KOREAN_SUFFIX.get(prefix, ...): U+C2E0 U+C0AC
KOREAN_SUFFIX_DEFAULT == <<49888, 49324>>

TOMO_SEWI_SULI == <<116, 111, 109, 111, 32, 115, 101, 119, 105, 32, 115, 117, 108, 105, 32>>   \* "tomo sewi suli "
TOMO_SEWI == <<116, 111, 109, 111, 32, 115, 101, 119, 105, 32>>   \* "tomo sewi "

\* the prefixes of extract_name
KUIL_AGUNG == <<75, 117, 105, 108, 32, 65, 103, 117, 110, 103, 32>>   \* "Kuil Agung "
KUIL == <<75, 117, 105, 108, 32>>   \* "Kuil "
\* s.startswith(prefix)
StartsWith(s, prefix) ==
  Len(s) >= Len(prefix) /\ SubSeq(s, 1, Len(prefix)) = prefix

RECURSIVE remove_bracketed(_, _, _)
\* re.sub of an opening bracket, any characters but the closing bracket, and
\* the closing bracket, by the empty string
remove_bracketed(s, open, close) ==
  LET opens == {k \in 1..Len(s) : s[k] = open}
  IN IF opens = {} THEN s
     ELSE LET p == CHOOSE k \in opens : \A j \in opens : k <= j
              closes == {k \in (p + 1)..Len(s) : s[k] = close}
          IN IF closes = {} THEN s
             ELSE LET q == CHOOSE k \in closes : \A j \in closes : k <= j
                  IN SubSeq(s, 1, p - 1) \o remove_bracketed(SubSeq(s, q + 1, Len(s)), open, close)

\* str.strip()
Strip(s) ==
  LET solid == {k \in 1..Len(s) : ~IsSpace(s[k])}
  IN IF solid = {} THEN <<>>
     ELSE SubSeq(s, CHOOSE k \in solid : \A j \in solid : k <= j,
                    CHOOSE k \in solid : \A j \in solid : k >= j)

RECURSIVE first_prefix(_, _)
\* the for loop of process_label over the rules: <<norm_prefix, name>> of the
\* first rule whose lower-cased prefix starts the lower-cased label, or <<>>
first_prefix(rules, cleaned) ==
  IF rules = <<>> THEN <<>>
  ELSE IF StartsWith(Lower(cleaned), Lower(rules[1][1]))
       THEN <<rules[1][2], From(cleaned, Len(rules[1][1]))>>
       ELSE first_prefix(Tail(rules), cleaned)

\* process_label(source_lang, source_label): <<prefix, name>>, or <<>> for None
process_label(source_lang, source_label) ==
  LET cleaned == Strip(remove_bracketed(remove_bracketed(remove_bracketed(
                   source_label, 40, 41), 91, 93), 123, 125))
      rules == IF source_lang \in DOMAIN PREFIX_RULES THEN PREFIX_RULES[source_lang] ELSE <<>>
      found == first_prefix(rules, cleaned)
  IN IF found = <<>> THEN <<>>
     ELSE <<found[1], Lower(SelectSeq(found[2], LAMBDA c : c \notin {32, 45}))>>

\* make_tokipona_label(prefix, tokiponized_name)
make_tokipona_label(prefix, tokiponized_name) ==
  IF prefix \in {"Kuil Agung", "Wihara Agung", "Temple Grand"}
  THEN TOMO_SEWI_SULI \o tokiponized_name
  ELSE TOMO_SEWI \o tokiponized_name

RECURSIVE hanja_loop(_, _, _, _, _)
\* the for loop of japanese_to_korean_hanja and the flushes after it: the
\* possible result_parts
hanja_loop(ja_label, pos, result_parts, current_kana, current_kanji) ==
  IF pos >= Len(ja_label)
  THEN {flush_kana(flushed, current_kana) : flushed \in flush_kanji(result_parts, current_kanji)}
  ELSE LET char == ja_label[pos + 1]
       IN IF is_kana(char)
          THEN UNION {hanja_loop(ja_label, pos + 1, flushed, Append(current_kana, char), <<>>) :
                        flushed \in flush_kanji(result_parts, current_kanji)}
          ELSE IF is_ideograph(char)
          THEN hanja_loop(ja_label, pos + 1, flush_kana(result_parts, current_kana), <<>>,
                          Append(current_kanji, char))
          ELSE UNION {hanja_loop(ja_label, pos + 1, flush_kana(flushed, current_kana), <<>>, <<>>) :
                        flushed \in flush_kanji(result_parts, current_kanji)}

\* japanese_to_korean_hanja(ja_label): the possible results, <<>> for None
japanese_to_korean_hanja(ja_label) ==
  IF ja_label = <<>> THEN {<<>>}
  ELSE {hanja_result(result_parts) : result_parts \in hanja_loop(ja_label, 0, <<>>, <<>>, <<>>)}

\* key = (qid, source_lang, source_label) of fetch_shrines_tokiponize.main
dedup_key(binding) == <<binding.qid, binding.srcLang, binding.srcLabel>>

RECURSIVE variant_rows(_, _, _, _, _)
\* the `for variant in variants` loop: <<seen_rows, rows>> after it
variant_rows(variants, binding, prefix, seen_rows, rows) ==
  IF variants = <<>> THEN <<seen_rows, rows>>
  ELSE LET variant == Head(variants)
           row_key == <<binding.qid, binding.srcLang, binding.srcLabel, variant>>
       IN IF row_key \in seen_rows
          THEN variant_rows(Tail(variants), binding, prefix, seen_rows, rows)
          ELSE variant_rows(Tail(variants), binding, prefix, seen_rows \cup {row_key},
                 Append(rows, [qid |-> binding.qid,
                               label |-> make_tokipona_label(prefix, variant)]))

\* one iteration of `for binding in deduped` of fetch_shrines_tokiponize.main
tok_process(binding, seen_rows, rows) ==
  LET processed == process_label(binding.srcLang, binding.srcLabel)
  IN IF processed = <<>> THEN <<seen_rows, rows>>
     ELSE variant_rows(tokiponize(processed[2]), binding, processed[1], seen_rows, rows)

\* the first loop's iteration with the `else: skipped += 1` of a binding
\* without a Japanese label left out
ko_path1_uncounted(binding, rows, skipped) ==
  LET processed == process_label("id", binding.idLabel)
  IN IF processed = <<>>
     THEN IF binding.jaLabel # <<>>
          THEN {IF ko_label # <<>>
                THEN <<Append(rows, [qid |-> binding.qid, label |-> ko_label[1]]), skipped>>
                ELSE <<rows, skipped + 1>> : ko_label \in japanese_to_korean_hanja(binding.jaLabel)}
          ELSE {<<rows, skipped>>}
     ELSE LET suffix == IF processed[1] \in DOMAIN KOREAN_SUFFIX
                        THEN KOREAN_SUFFIX[processed[1]] ELSE KOREAN_SUFFIX_DEFAULT
              korean_name == koreanize(processed[2])
          IN IF korean_name # <<>>
             THEN {<<Append(rows, [qid |-> binding.qid,
                                   label |-> korean_name \o <<32>> \o suffix]), skipped>>}
             ELSE {<<rows, skipped + 1>>}

\* <<rows, skipped>> after one binding of the first loop of
\* generate_korean_quickstatements.main that is not skipped as seen
ko_path1(binding, rows, skipped) ==
  LET processed == process_label("id", binding.idLabel)
  IN IF processed = <<>>
     THEN IF binding.jaLabel # <<>>
          THEN {IF ko_label # <<>>
                THEN <<Append(rows, [qid |-> binding.qid, label |-> ko_label[1]]), skipped>>
                ELSE <<rows, skipped + 1>> : ko_label \in japanese_to_korean_hanja(binding.jaLabel)}
          ELSE {<<rows, skipped + 1>>}
     ELSE LET suffix == IF processed[1] \in DOMAIN KOREAN_SUFFIX
                        THEN KOREAN_SUFFIX[processed[1]] ELSE KOREAN_SUFFIX_DEFAULT
              korean_name == koreanize(processed[2])
          IN IF korean_name # <<>>
             THEN {<<Append(rows, [qid |-> binding.qid,
                                   label |-> korean_name \o <<32>> \o suffix]), skipped>>}
             ELSE {<<rows, skipped + 1>>}

\* <<rows, skipped>> after one binding of the second loop that is not
\* skipped as seen
ko_path2(binding, rows, skipped) ==
  {IF ko_label # <<>>
   THEN <<Append(rows, [qid |-> binding.qid, label |-> ko_label[1]]), skipped>>
   ELSE <<rows, skipped + 1>> : ko_label \in japanese_to_korean_hanja(binding.jaLabel)}

\* extract_name(id_label) of generate_multilang_quickstatements.py:
\* <<name, is_grand>>, or <<>> for None
extract_name(id_label) ==
  LET cleaned == Strip(remove_bracketed(remove_bracketed(id_label, 40, 41), 91, 93))
      grand == KUIL_AGUNG
      plain == KUIL
  IN IF StartsWith(cleaned, grand)
     THEN LET name == Strip(From(cleaned, Len(grand)))
          IN IF name # <<>> THEN <<name, TRUE>> ELSE <<>>
     ELSE IF StartsWith(cleaned, plain)
          THEN LET name == Strip(From(cleaned, Len(plain)))
               IN IF name # <<>> THEN <<name, FALSE>> ELSE <<>>
          ELSE <<>>

\* <<rows, skipped>> after one binding of the loop of
\* generate_multilang_quickstatements.main that is not skipped as seen
ml_binding(lang, binding, rows, skipped) ==
  LET extracted == extract_name(binding.idLabel)
  IN IF extracted = <<>> THEN <<rows, skipped + 1>>
     ELSE LET label == format_label(lang, extracted[1], extracted[2])
          IN IF label # <<>> /\ label[1] # <<>>
             THEN <<Append(rows, [qid |-> binding.qid, label |-> label[1]]), skipped>>
             ELSE <<rows, skipped + 1>>
\* ------------------------------------------------------------------------
\* Calls of normalize: normalize(text), then normalize of the result
\* ------------------------------------------------------------------------

MaxNormLen == 3

\* a A a-macron hyphen combining-macron fullwidth-a, the jamo U+1100 and
\* U+1161 and the syllable U+AC00 they compose to
NORM_ALPHABET == {97, 65, 257, 45, 772, 65345, 4352, 4449, 44032}

InitNormalize ==
  /\ fn = "normalize"
  /\ arg \in Strings(NORM_ALPHABET, MaxNormLen)
  /\ pc = "call"
  /\ text = <<>> /\ i = 0 /\ tokens = <<>> /\ parts = <<>> /\ acc = <<>> /\ out = <<>>

\* text = normalize(arg)
CallNormalize ==
  /\ fn = "normalize" /\ pc = "call"
  /\ text' = normalize(arg)
  /\ pc' = "again"
  /\ UNCHANGED <<fn, arg, i, tokens, parts, acc, out>>

\* out = normalize(text)
CallNormalizeAgain ==
  /\ fn = "normalize" /\ pc = "again"
  /\ out' = normalize(text)
  /\ pc' = "done"
  /\ UNCHANGED <<fn, arg, text, i, tokens, parts, acc>>

NextNormalize == CallNormalize \/ CallNormalizeAgain

SpecNormalize == InitNormalize /\ [][NextNormalize]_vars

\* C1: normalize is idempotent: normalize(normalize(x)) = normalize(x) for
\* every input string x.
C1_NormalizeIdempotent == (fn = "normalize" /\ pc = "done") => out = text

\* ------------------------------------------------------------------------
\* Calls of kana_to_romaji, one loop iteration per step
\* ------------------------------------------------------------------------

MaxKanaLen == 3

\* U+304D U+3083 (a 2-character key and its two 1-character halves, the
\* second of which is no key), their katakana U+30AD U+30E3, U+30F6 (the
\* last katakana that is moved), U+30F7 (the first that is not) and a
KANA_ALPHABET == {12365, 12419, 12461, 12515, 12534, 12535, 97}

\* text is the local text, out the local out
InitKana ==
  /\ fn = "kana_to_romaji"
  /\ arg \in Strings(KANA_ALPHABET, MaxKanaLen)
  /\ pc = "katakana_to_hiragana"
  /\ text = arg
  /\ i = 0 /\ tokens = <<>> /\ parts = <<>> /\ acc = <<>> /\ out = <<>>

\* text = katakana_to_hiragana(text); out = ""; i = 0
KanaHiragana ==
  /\ fn = "kana_to_romaji" /\ pc = "katakana_to_hiragana"
  /\ text' = katakana_to_hiragana(text)
  /\ pc' = "loop"
  /\ UNCHANGED <<fn, arg, i, tokens, parts, acc, out>>

\* one iteration of the while loop
KanaIteration ==
  /\ fn = "kana_to_romaji" /\ pc = "loop" /\ i < Len(text)
  /\ i' = kana_step(text, i, out)[1]
  /\ out' = kana_step(text, i, out)[2]
  /\ UNCHANGED <<fn, arg, pc, text, tokens, parts, acc>>

\* return out
KanaReturn ==
  /\ fn = "kana_to_romaji" /\ pc = "loop" /\ i >= Len(text)
  /\ pc' = "done"
  /\ UNCHANGED <<fn, arg, text, i, tokens, parts, acc, out>>

NextKana == KanaHiragana \/ KanaIteration \/ KanaReturn

SpecKana == InitKana /\ [][NextKana]_vars

\* a call, once started, runs its statements one after the other
SpecKanaFair == SpecKana /\ WF_vars(NextKana)

\* the character 0x60 below every character of U+30A1..U+30F6
Hiragana(s) ==
  [k \in 1..Len(s) |-> IF s[k] \in 12449..12534 THEN s[k] - 96 ELSE s[k]]

RECURSIVE KanaPieces(_)
\* the pieces of a left-to-right scan: the romaji of a 2-character key where
\* one starts, else the romaji of a 1-character key, else the character
KanaPieces(s) ==
  IF s = <<>> THEN <<>>
  ELSE IF Len(s) >= 2 /\ SubSeq(s, 1, 2) \in DOMAIN KANA_ROMAJI
       THEN <<KANA_ROMAJI[SubSeq(s, 1, 2)]>> \o KanaPieces(SubSeq(s, 3, Len(s)))
       ELSE IF <<s[1]>> \in DOMAIN KANA_ROMAJI
            THEN <<KANA_ROMAJI[<<s[1]>>]>> \o KanaPieces(Tail(s))
            ELSE <<<<s[1]>>>> \o KanaPieces(Tail(s))

\* C15: kana_to_romaji first moves every character of U+30A1..U+30F6 down by
\* 0x60 and leaves the others unchanged; its output is at every point of
\* the scan the in-order concatenation of the pieces of the scanned prefix,
\* a 2-character key taken in preference to a 1-character key and an
\* unmatched character copied; and every call returns.
C15_KanaToRomaji ==
  /\ [](pc \in {"loop", "done"} => text = Hiragana(arg))
  /\ [](pc = "loop" => out = Concat(KanaPieces(SubSeq(text, 1, Min(i, Len(text))))))
  /\ [](pc = "done" => out = Concat(KanaPieces(Hiragana(arg))))
  /\ <>(pc = "done")

\* U+30AD U+30E3 a returns kyaa: the katakana are moved, the 2-character key
\* is taken and the letter a is copied
C15_Witness ==
  /\ fn = "kana_to_romaji" /\ pc = "done" /\ arg = <<12461, 12515, 97>>
  /\ out = S(<<"k", "y", "a", "a">>)

\* ------------------------------------------------------------------------
\* Calls of the two tokenizers, one loop iteration per step
\* ------------------------------------------------------------------------

MaxTokLen == 4

\* letters of the 3-letter clusters nya, sha, shi, of wi (a Korean key only),
\* and h, s, w, y, which are no token alone
TOKEN_ALPHABET == {Ord[c] : c \in {"n", "y", "a", "s", "h", "i", "w"}}

Vocabulary(f) == IF f = "tokenize_romaji_korean" THEN KOREAN_VOCABULARY ELSE TOKI_VOCABULARY

InitTokenize ==
  /\ fn \in {"tokenize_romaji", "tokenize_romaji_korean"}
  /\ arg \in Strings(TOKEN_ALPHABET, MaxTokLen)
  /\ text = arg
  /\ pc = "loop"
  /\ i = 0 /\ tokens = <<>>
  /\ parts = <<>> /\ acc = <<>> /\ out = <<>>

\* one iteration of `while i < len(text)`
TokenizeIteration ==
  /\ fn \in {"tokenize_romaji", "tokenize_romaji_korean"} /\ pc = "loop"
  /\ i < Len(text)
  /\ LET st == TokenizeStep(text, i, tokens, Vocabulary(fn))
     IN i' = st[1] /\ tokens' = st[2]
  /\ UNCHANGED <<fn, arg, pc, text, parts, acc, out>>

\* return tokens
TokenizeReturn ==
  /\ fn \in {"tokenize_romaji", "tokenize_romaji_korean"} /\ pc = "loop"
  /\ i >= Len(text)
  /\ out' = tokens
  /\ pc' = "done"
  /\ UNCHANGED <<fn, arg, text, i, tokens, parts, acc>>

NextTokenize == TokenizeIteration \/ TokenizeReturn

SpecTokenize == InitTokenize /\ [][NextTokenize]_vars

\* what is left to scan from position pos (nothing once pos is past the end)
Rest(pos) == IF pos >= Len(text) THEN <<>> ELSE From(text, pos)

\* the iteration the claim describes, from position i
GreedyIteration ==
  LET v == Vocabulary(fn)
      c3 == Slice(text, i, 3)
      c2 == Slice(text, i, 2)
      c1 == Slice(text, i, 1)
      take(c) == tokens' = Append(tokens, c) /\ Rest(i') = Rest(i + Len(c))
  IN IF c3 \in v THEN take(c3)
     ELSE IF c2 \in v THEN take(c2)
     ELSE IF c1 \in v THEN take(c1)
     ELSE tokens' = tokens /\ i' = i + 1

\* C2: both tokenizers are greedy longest-match: at every position the
\* 3-character slice is tried first, then the 2-character slice, then the
\* 1-character slice; the first one in the vocabulary becomes the next token
\* and the scan resumes right after it; when none matches, one character is
\* dropped.  nya is taken in preference to n followed by ya.
C2_GreedyLongestMatch ==
  /\ [][(pc = "loop" /\ i < Len(text)) => GreedyIteration]_vars
  /\ [](pc = "done" /\ Len(text) >= 3 /\ SubSeq(text, 1, 3) = S(<<"n", "y", "a">>)
          => out # <<>> /\ out[1] = S(<<"n", "y", "a">>))

\* text "hnya": h is dropped, then nya is one token although n and ya are tokens too
C2_Witness ==
  /\ pc = "done" /\ text = S(<<"h", "n", "y", "a">>)
  /\ out = <<S(<<"n", "y", "a">>)>>
  /\ <<Ord["n"]>> \in Vocabulary(fn) /\ S(<<"y", "a">>) \in Vocabulary(fn)

RECURSIVE SlicesInOrder(_, _, _)
\* toks are slices of t that start at or after from, each after the one before
SlicesInOrder(toks, t, from) ==
  \/ toks = <<>>
  \/ \E p \in from..(Len(t) - Len(Head(toks))) :
       /\ Slice(t, p, Len(Head(toks))) = Head(toks)
       /\ SlicesInOrder(Tail(toks), t, p + Len(Head(toks)))

\* C3: the tokens are disjoint slices of the input in left-to-right order:
\* their combined length and their number are at most the input length, every
\* token is a member of the vocabulary, and no character is duplicated or
\* reordered.
C3_TokensAreSlices ==
  fn \in {"tokenize_romaji", "tokenize_romaji_korean"} =>
    /\ Len(Concat(tokens)) <= Min(i, Len(text))
    /\ Len(tokens) <= Len(text)
    /\ \A k \in 1..Len(tokens) : tokens[k] \in Vocabulary(fn)
    /\ SlicesInOrder(tokens, text, 0)
    /\ pc = "done" => out = tokens

\* "ynsa": y is dropped, n and sa are the tokens, 3 of the 4 characters
C3_Witness ==
  /\ pc = "done" /\ text = S(<<"y", "n", "s", "a">>)
  /\ out = <<<<Ord["n"]>>, S(<<"s", "a">>)>>

\* ------------------------------------------------------------------------
\* Calls of tokiponize, one statement per step
\* ------------------------------------------------------------------------

MaxTokiLen == 4
MaxVowelRun == 3

\* the letters of the h row and its neighbours
TOKI_ALPHABET == {Ord[c] : c \in {"h", "f", "y", "a", "u", "k", "n"}}

\* every consonant letter followed by a vowel
CV_SYLLABLES ==
  {<<Ord[c], v>> : c \in {"k", "g", "s", "z", "t", "d", "n", "h", "f", "b", "p",
                           "m", "y", "r", "w", "j", "c"}, v \in VOWELS}

\* the examples of tokiponizer.py's __main__: "Hachiman", U+3058 U+3065,
\* U+30C8 U+30E8 U+30BF U+30DE U+30D2 U+30E1; and "hachiman", "chi"
TOKI_EXAMPLES ==
  { <<72>> \o S(<<"a", "c", "h", "i", "m", "a", "n">>),
    <<12376, 12389>>,
    <<12488, 12520, 12479, 12510, 12498, 12513>>,
    S(<<"h", "a", "c", "h", "i", "m", "a", "n">>),
    S(<<"c", "h", "i">>) }

\* the runs of two and three vowels, alone and after k
VOWEL_RUNS ==
  Strings(VOWELS, MaxVowelRun) \cup {<<107>> \o run : run \in Strings(VOWELS, MaxVowelRun)}

InitTokipona ==
  /\ fn = "tokiponize"
  /\ arg \in TOKI_EXAMPLES \cup CV_SYLLABLES \cup Strings(TOKI_ALPHABET, MaxTokiLen)
            \cup VOWEL_RUNS
  /\ pc = "normalize"
  /\ text = arg
  /\ i = 0 /\ tokens = <<>> /\ parts = <<>> /\ acc = <<>> /\ out = <<>>

\* text = normalize(text)
TokiNormalize ==
  /\ fn = "tokiponize" /\ pc = "normalize"
  /\ text' = normalize(text)
  /\ pc' = "kana_to_romaji"
  /\ UNCHANGED <<fn, arg, i, tokens, parts, acc, out>>

\* text = kana_to_romaji(text)
TokiKanaToRomaji ==
  /\ fn = "tokiponize" /\ pc = "kana_to_romaji"
  /\ text' = kana_to_romaji(text)
  /\ pc' = "tokenize"
  /\ UNCHANGED <<fn, arg, i, tokens, parts, acc, out>>

\* tokens = tokenize_romaji(text)
TokiTokenize ==
  /\ fn = "tokiponize" /\ pc = "tokenize"
  /\ tokens' = tokenize_romaji(text)
  /\ pc' = "render"
  /\ UNCHANGED <<fn, arg, text, i, parts, acc, out>>

\* the loop filling syllables from YOON_MAP and BASE_MAP
TokiRender ==
  /\ fn = "tokiponize" /\ pc = "render"
  /\ parts' = Render(tokens, YOON_MAP, BASE_MAP)
  /\ pc' = "apply_h_position"
  /\ UNCHANGED <<fn, arg, text, i, tokens, acc, out>>

\* syllables = apply_h_position(syllables)
TokiHPosition ==
  /\ fn = "tokiponize" /\ pc = "apply_h_position"
  /\ parts' = apply_h_position(parts)
  /\ pc' = "apply_dipthongs"
  /\ UNCHANGED <<fn, arg, text, i, tokens, acc, out>>

\* syllables = apply_dipthongs_to_syllables(syllables), kept in acc
TokiDipthongs ==
  /\ fn = "tokiponize" /\ pc = "apply_dipthongs"
  /\ acc' = apply_dipthongs_to_syllables(parts)
  /\ pc' = "join"
  /\ UNCHANGED <<fn, arg, text, i, tokens, parts, out>>

\* word = "".join(syllables).capitalize(); return [word] if word else []
TokiJoin ==
  /\ fn = "tokiponize" /\ pc = "join"
  /\ LET word == Capitalize(Concat(acc))
     IN out' = IF word # <<>> THEN <<word>> ELSE <<>>
  /\ pc' = "done"
  /\ UNCHANGED <<fn, arg, text, i, tokens, parts, acc>>

NextTokipona ==
  \/ TokiNormalize \/ TokiKanaToRomaji \/ TokiTokenize \/ TokiRender
  \/ TokiHPosition \/ TokiDipthongs \/ TokiJoin

SpecTokipona == InitTokipona /\ [][NextTokipona]_vars

\* the voiced syllables of the g, z, d and b rows that are keys of BASE_MAP
VOICED_SYLLABLES ==
  {s \in DOMAIN BASE_MAP : Len(s) = 2 /\ s[1] \in {Ord["g"], Ord["z"], Ord["d"], Ord["b"]}}

\* the syllable with g, z, d, b replaced by k, s, t, p
Unvoiced(s) ==
  <<CASE s[1] = Ord["g"] -> Ord["k"] [] s[1] = Ord["z"] -> Ord["s"]
      [] s[1] = Ord["d"] -> Ord["t"] [] s[1] = Ord["b"] -> Ord["p"]>> \o Tail(s)

\* C5 as claimed: tokiponize of every voiced syllable of the g, z, d and b
\* rows equals tokiponize of the syllable with k, s, t, p in place of its
\* consonant.
C5_DevoicingAllRows ==
  (fn = "tokiponize" /\ pc = "done" /\ arg \in VOICED_SYLLABLES)
    => out = tokiponize(Unvoiced(arg))

\* C5 as amended: the same for every such syllable but di; tokiponize("di")
\* is ["Si"], the result for "chi", whereas tokiponize("ti") is ["I"].
C5_DevoicingButDi ==
  (fn = "tokiponize" /\ pc = "done" /\ arg \in VOICED_SYLLABLES) =>
    IF arg = S(<<"d", "i">>)
    THEN out = <<<<83, 105>>>> /\ out = tokiponize(S(<<"c", "h", "i">>))
         /\ tokiponize(S(<<"t", "i">>)) = <<<<73>>>>
    ELSE out = tokiponize(Unvoiced(arg)) /\ out = <<Capitalize(Unvoiced(arg))>>

\* tokiponize("ga") is ["Ka"]
C5_Witness ==
  fn = "tokiponize" /\ pc = "done" /\ arg = S(<<"g", "a">>) /\ out = <<<<75, 97>>>>

\* C6: tokiponize("hachiman") tokenizes to [ha, chi, ma, n] and yields one
\* word, which starts with the letter k and contains no letter h.
C6_Hachiman ==
  (fn = "tokiponize" /\ pc = "done" /\ arg = S(<<"h", "a", "c", "h", "i", "m", "a", "n">>)) =>
    /\ tokens = <<S(<<"h", "a">>), S(<<"c", "h", "i">>), S(<<"m", "a">>), S(<<"n">>)>>
    /\ Len(out) = 1
    /\ out[1] # <<>> /\ LowerChar(out[1][1]) = Ord["k"]
    /\ \A k \in 1..Len(out[1]) : LowerChar(out[1][k]) # Ord["h"]

\* the result is ["Kasiman"]
C6_Witness ==
  /\ fn = "tokiponize" /\ pc = "done" /\ arg = S(<<"h", "a", "c", "h", "i", "m", "a", "n">>)
  /\ out = <<<<75>> \o S(<<"a", "s", "i", "m", "a", "n">>)>>

\* the tokens of the Japanese h row
H_ROW ==
  {S(<<"h", "a">>), S(<<"h", "i">>), S(<<"h", "u">>), S(<<"f", "u">>), S(<<"h", "e">>),
   S(<<"h", "o">>), S(<<"h", "y", "a">>), S(<<"h", "y", "u">>), S(<<"h", "y", "o">>)}

\* C7: for every token sequence, the rendered segment of every token of the
\* h row begins with k when the token has index 0 and with p when it has an
\* index greater than 0.
C7_PositionalH ==
  (fn = "tokiponize" /\ pc \in {"apply_dipthongs", "join", "done"}) =>
    /\ Len(parts) = Len(tokens)
    /\ \A k \in 1..Len(tokens) :
         tokens[k] \in H_ROW =>
           parts[k][1] = (IF k = 1 THEN Ord["k"] ELSE Ord["p"])


\* the kana of the mora zu: U+305A, U+3065 and their katakana U+30BA, U+30C5
ZU_KANA == {12378, 12389, 12474, 12485}

\* the name contains the mora zu, written zu or in kana
ContainsZu(name) ==
  \/ \E k \in 1..Len(name) : name[k] \in ZU_KANA
  \/ \E k \in 0..(Len(name) - 2) : Slice(Lower(name), k, 2) = S(<<"z", "u">>)

\* C11: for a name containing the mora zu, tokiponize returns two candidate
\* strings, the su variant and the tu variant.
C11_ZuTwoCandidates ==
  (fn = "tokiponize" /\ pc = "done" /\ ContainsZu(arg)) =>
    /\ Len(out) = 2
    /\ \E a, b \in 1..Len(out) :
         /\ \E k \in 0..(Len(out[a]) - 2) : Slice(Lower(out[a]), k, 2) = S(<<"s", "u">>)
         /\ \E k \in 0..(Len(out[b]) - 2) : Slice(Lower(out[b]), k, 2) = S(<<"t", "u">>)

\* the letters of the Toki Pona alphabet: a e i o u j k l m n p s t w
TOKI_PONA_LETTERS ==
  {Ord[c] : c \in {"a", "e", "i", "o", "u", "j", "k", "l", "m", "n", "p", "s", "t", "w"}}

\* C27: every candidate tokiponize returns is written with the letters of
\* the Toki Pona alphabet only, in either case: no h, y, r, g, z, d, b, c or
\* f occurs in it.
C27_TokiPonaAlphabet ==
  (fn = "tokiponize" /\ pc = "done") =>
    \A c \in 1..Len(out) : \A k \in 1..Len(out[c]) :
      LowerChar(out[c][k]) \in TOKI_PONA_LETTERS

\* C28: no candidate tokiponize returns has two adjacent vowel letters: the
\* diphthong pass leaves no seam where a syllable ending in a vowel is
\* followed by a syllable beginning with one, and no value of BASE_MAP,
\* YOON_MAP or DIPTHONGS has adjacent vowels inside it.
C28_NoAdjacentVowels ==
  LET vowel(c) == LowerChar(c) \in VOWELS
      adjacent(w) == \E k \in 1..(Len(w) - 1) : vowel(w[k]) /\ vowel(w[k + 1])
  IN /\ \A t \in DOMAIN BASE_MAP : ~adjacent(BASE_MAP[t])
     /\ \A t \in DOMAIN YOON_MAP : ~adjacent(YOON_MAP[t])
     /\ \A t \in DOMAIN DIPTHONGS : ~adjacent(DIPTHONGS[t])
     /\ (fn = "tokiponize" /\ pc \in {"join", "done"}) =>
          \A k \in 1..(Len(acc) - 1) :
            ~(acc[k] # <<>> /\ acc[k + 1] # <<>>
              /\ vowel(acc[k][Len(acc[k])]) /\ vowel(acc[k + 1][1]))
     /\ (fn = "tokiponize" /\ pc = "done") => \A c \in 1..Len(out) : ~adjacent(out[c])

\* tokiponize("kaea"): the syllables ka, e, a have become kaweja, one
\* candidate without adjacent vowels
C28_Witness ==
  /\ fn = "tokiponize" /\ pc = "done"
  /\ arg = S(<<"k", "a", "e", "a">>)
  /\ parts = <<S(<<"k", "a">>), S(<<"e">>), S(<<"a">>)>>
  /\ out = <<<<75>> \o S(<<"a", "w", "e", "j", "a">>)>>
\* ------------------------------------------------------------------------
\* Calls of koreanize, one statement or loop iteration per step
\* ------------------------------------------------------------------------

MaxKoLen == 4

\* k a n, hiragana U+304B (ka) U+3093 (n) U+3060 (da), katakana U+30AB (ka)
KOREAN_ALPHABET == {107, 97, 110, 12363, 12435, 12384, 12459}

\* the examples of koreanizer.py's __main__: "Hachiman", U+3058 U+3093 U+3058
\* U+3083, U+30C8 U+30E8 U+30BF U+30DE U+30D2 U+30E1, U+304B U+3093 U+3060
KOREAN_EXAMPLES ==
  { <<72>> \o S(<<"a", "c", "h", "i", "m", "a", "n">>),
    <<12376, 12435, 12376, 12419>>,
    <<12488, 12520, 12479, 12510, 12498, 12513>>,
    <<12363, 12435, 12384>> }

\* the voiced hiragana of the g, z, d and b rows: U+304C..U+3054,
\* U+3056..U+305E, U+3060 U+3062 U+3065 U+3067 U+3069, U+3070..U+307C
VOICED_KANA ==
  {12364, 12366, 12368, 12370, 12372, 12374, 12376, 12378, 12380, 12382,
   12384, 12386, 12389, 12391, 12393, 12400, 12403, 12406, 12409, 12412}

\* U+3093 before a vowel kana and before a y kana: U+304B U+3093 U+3042,
\* U+3093 U+3042, U+304B U+3093 U+3084
NASAL_EXAMPLES == {<<12363, 12435, 12354>>, <<12435, 12354>>, <<12363, 12435, 12420>>}

InitKorean ==
  /\ fn = "koreanize"
  /\ arg \in KOREAN_EXAMPLES \cup Strings(KOREAN_ALPHABET, MaxKoLen)
            \cup {<<c>> : c \in VOICED_KANA} \cup NASAL_EXAMPLES
  /\ pc = "normalize"
  /\ text = arg
  /\ i = 0 /\ tokens = <<>> /\ parts = <<>> /\ acc = <<>> /\ out = <<>>

\* text = normalize(text)
KoNormalize ==
  /\ fn = "koreanize" /\ pc = "normalize"
  /\ text' = normalize(text)
  /\ pc' = "kana_to_romaji"
  /\ UNCHANGED <<fn, arg, i, tokens, parts, acc, out>>

\* text = kana_to_romaji(text)
KoKanaToRomaji ==
  /\ fn = "koreanize" /\ pc = "kana_to_romaji"
  /\ text' = kana_to_romaji(text)
  /\ pc' = "tokenize"
  /\ UNCHANGED <<fn, arg, i, tokens, parts, acc, out>>

\* tokens = tokenize_romaji_korean(text)
KoTokenize ==
  /\ fn = "koreanize" /\ pc = "tokenize"
  /\ tokens' = tokenize_romaji_korean(text)
  /\ pc' = "render"
  /\ UNCHANGED <<fn, arg, text, i, parts, acc, out>>

\* the loop filling hangul_parts from YOON_TO_HANGUL and ROMAJI_TO_HANGUL
KoRender ==
  /\ fn = "koreanize" /\ pc = "render"
  /\ parts' = Render(tokens, YOON_TO_HANGUL, ROMAJI_TO_HANGUL)
  /\ i' = 0 /\ acc' = <<>>
  /\ pc' = "merge"
  /\ UNCHANGED <<fn, arg, text, tokens, out>>

\* one iteration of `for part in hangul_parts`, i parts done
KoMergeIteration ==
  /\ fn = "koreanize" /\ pc = "merge"
  /\ i < Len(parts)
  /\ acc' = merge_part(acc, parts[i + 1])
  /\ i' = i + 1
  /\ UNCHANGED <<fn, arg, pc, text, tokens, parts, out>>

\* return "".join(merged)
KoJoin ==
  /\ fn = "koreanize" /\ pc = "merge"
  /\ i >= Len(parts)
  /\ out' = Concat(acc)
  /\ pc' = "done"
  /\ UNCHANGED <<fn, arg, text, i, tokens, parts, acc>>

NextKorean ==
  \/ KoNormalize \/ KoKanaToRomaji \/ KoTokenize \/ KoRender
  \/ KoMergeIteration \/ KoJoin

SpecKorean == InitKorean /\ [][NextKorean]_vars

\* C8: koreanize of the kana U+304B U+3093 U+3060 (romaji kanda) returns
\* exactly two composed syllable blocks, U+CE78 U+B2E4: the first is U+CE74
\* (ka) with final-consonant index 4, and no standalone U+3134 is in the
\* output.
C8_Kanda ==
  (fn = "koreanize" /\ pc = "done" /\ arg = <<12363, 12435, 12384>>) =>
    /\ text = S(<<"k", "a", "n", "d", "a">>)
    /\ out = <<52856, 45796>>
    /\ \A k \in 1..Len(out) : IsHangulSyllable(out[k])
    /\ (out[1] - HANGUL_BASE) % 28 = 4
    /\ out[1] - 4 = ROMAJI_TO_HANGUL[S(<<"k", "a">>)][1]
    /\ \A k \in 1..Len(out) : out[k] # NIEUN

\* the call has returned two characters
C8_Witness ==
  fn = "koreanize" /\ pc = "done" /\ arg = <<12363, 12435, 12384>> /\ Len(out) = 2


\* the unvoiced counterpart of a voiced kana is the code point before it
UnvoicedKana(c) == c - 1

\* C16: for every voiced kana, koreanize of the kana differs from koreanize
\* of its unvoiced counterpart.
C16_VoicingPreserved ==
  (fn = "koreanize" /\ pc = "done" /\ Len(arg) = 1 /\ arg[1] \in VOICED_KANA) =>
    out # koreanize(<<UnvoicedKana(arg[1])>>)

\* the number of U+3093 and U+30F3 in a kana string
NasalCount(s) == Cardinality({k \in 1..Len(s) : s[k] \in {12435, 12531}})

\* the number of nasal codas of a Hangul string: blocks whose
\* final-consonant index is 4, and standalone U+3134
CodaCount(s) ==
  Cardinality({k \in 1..Len(s) :
     \/ s[k] = NIEUN
     \/ IsHangulSyllable(s[k]) /\ (s[k] - HANGUL_BASE) % 28 = FINAL_NIEUN})

\* C17: for kana input, the number of nasal codas in the output of koreanize
\* equals the number of moraic nasals in the input, whatever kana follows.
C17_NasalCoda ==
  (fn = "koreanize" /\ pc = "done" /\ \A k \in 1..Len(arg) : is_kana(arg[k])) =>
    CodaCount(out) = NasalCount(arg)

\* the last character of the last element of merged
LastChar(merged) == LET prev == merged[Len(merged)] IN prev[Len(prev)]

\* the last character of merged is a syllable block without final consonant
Mergeable(merged) ==
  /\ merged # <<>>
  /\ IsHangulSyllable(LastChar(merged))
  /\ (LastChar(merged) - HANGUL_BASE) % 28 = 0

\* C21: in every iteration of the merge loop of koreanize, a part U+3134
\* after a syllable block with final-consonant index 0 replaces that block by
\* the block 4 code points higher (same initial and medial, final index 4,
\* still inside U+AC00..U+D7A3) and adds no element; a part U+3134 with no
\* preceding element, or after a block with a final consonant or a
\* non-block, is appended as its own element; every other part is appended.
C21_BatchimMerge ==
  [][(fn = "koreanize" /\ pc = "merge" /\ i < Len(parts)) =>
       LET part == parts[i + 1]
           n == Len(acc)
       IN IF part = <<NIEUN>> /\ Mergeable(acc)
          THEN LET block == LastChar(acc)
                   merged_block == LastChar(acc')
               IN /\ Len(acc') = n
                  /\ SubSeq(acc', 1, n - 1) = SubSeq(acc, 1, n - 1)
                  /\ Len(acc'[n]) = Len(acc[n])
                  /\ SubSeq(acc'[n], 1, Len(acc[n]) - 1) = SubSeq(acc[n], 1, Len(acc[n]) - 1)
                  /\ merged_block = block + 4
                  /\ HANGUL_BASE <= merged_block /\ merged_block <= HANGUL_LAST
                  /\ (merged_block - HANGUL_BASE) \div 28 = (block - HANGUL_BASE) \div 28
                  /\ (merged_block - HANGUL_BASE) % 28 = FINAL_NIEUN
          ELSE acc' = Append(acc, part)]_vars

\* an iteration has merged U+3134 into the preceding block, and an earlier
\* or later U+3134 stands as its own element
C21_Witness ==
  /\ fn = "koreanize" /\ pc = "merge" /\ i > 0
  /\ parts[i] = <<NIEUN>>
  /\ Len(acc) < i
  /\ (LastChar(acc) - HANGUL_BASE) % 28 = FINAL_NIEUN
  /\ \E k \in 1..Len(acc) : acc[k] = <<NIEUN>>
\* ------------------------------------------------------------------------
\* Calls of farsify, arabify, hindify and cyrillicize, one word per step
\* ------------------------------------------------------------------------

MaxScriptLen == 4

\* i, a, k, w, an unmapped letter and the space
SCRIPT_ALPHABET == {Ord[c] : c \in {"i", "a", "k", "w", "x", " "}}

SCRIPT_FUNCTIONS == {"farsify", "arabify", "hindify", "cyrillicize"}

\* the values of cyrillicize's parameter lang in format_label; the other
\* functions have no such parameter
ScriptLangs(f) == IF f = "cyrillicize" THEN {"ru", "uk"} ELSE {""}

InitScript ==
  /\ fn \in SCRIPT_FUNCTIONS
  /\ arg \in Strings(SCRIPT_ALPHABET, MaxScriptLen)
  /\ pc = "split"
  /\ text \in ScriptLangs(fn)
  /\ i = 0 /\ tokens = <<>> /\ parts = <<>> /\ acc = <<>> /\ out = <<>>

\* words = name.split()
ScriptSplit ==
  /\ fn \in SCRIPT_FUNCTIONS /\ pc = "split"
  /\ acc' = Split(arg)
  /\ i' = 0
  /\ pc' = "words"
  /\ UNCHANGED <<fn, arg, text, tokens, parts, out>>

\* parts of the per-word function of f
WordParts(f, word) ==
  CASE f = "farsify" -> farsi_parts(word)
    [] f = "arabify" -> arabic_parts(word)
    [] f = "hindify" -> hindi_parts(word)
    [] f = "cyrillicize" -> Render(word_tokens(word), CYRILLIC_YOON, CYRILLIC_BASE)

\* what the per-word function of f returns for the parts ps
WordResult(f, ps) ==
  IF f = "cyrillicize" /\ Concat(ps) # <<>> THEN Capitalize(Concat(ps)) ELSE Concat(ps)

\* one element of [_..._word(w) for w in words if w]: the tokens and the
\* parts of word i are kept; text is the parameter lang
ScriptWord ==
  /\ fn \in SCRIPT_FUNCTIONS /\ pc = "words"
  /\ i < Len(acc)
  /\ tokens' = Append(tokens, word_tokens(acc[i + 1]))
  /\ parts' = Append(parts, WordParts(fn, acc[i + 1]))
  /\ i' = i + 1
  /\ UNCHANGED <<fn, arg, pc, text, acc, out>>

\* return " ".join(w for w in ..._words if w); cyrillicize with lang uk
\* replaces U+044D by U+0435 and U+0438 by U+0456 before it returns
ScriptJoin ==
  /\ fn \in SCRIPT_FUNCTIONS /\ pc = "words"
  /\ i >= Len(acc)
  /\ LET result == join_nonempty([k \in 1..Len(parts) |-> WordResult(fn, parts[k])])
     IN out' = IF fn = "cyrillicize" /\ text = "uk"
               THEN ReplaceChar(ReplaceChar(result, 1101, 1077), 1080, 1110)
               ELSE result
  /\ pc' = "done"
  /\ UNCHANGED <<fn, arg, text, i, tokens, parts, acc>>

NextScript == ScriptSplit \/ ScriptWord \/ ScriptJoin

SpecScript == InitScript /\ [][NextScript]_vars

\* the step-by-step call returns what the function returns
ScriptIsTheFunction ==
  pc = "done" =>
    out = CASE fn = "farsify" -> farsify(arg)
            [] fn = "arabify" -> arabify(arg)
            [] fn = "hindify" -> hindify(arg)
            [] fn = "cyrillicize" -> cyrillicize(arg, text)

InitialTable(f) == IF f = "farsify" THEN FARSI_INITIAL ELSE ARABIC_INITIAL
BaseTable(f) == IF f = "farsify" THEN FARSI_BASE ELSE ARABIC_BASE

\* C9: in farsify and arabify a vowel token i at index 0 of a word is
\* rendered with the initial-carrier glyph, which differs from the glyph of a
\* non-initial i; the initial-carrier table is consulted for the first token
\* of a word only, never for a token at an index greater than 0.
C9_InitialCarrier ==
  fn \in {"farsify", "arabify"} =>
    /\ InitialTable(fn)[<<Ord["i"]>>] # BaseTable(fn)[<<Ord["i"]>>]
    /\ \A w \in 1..Len(tokens) :
         /\ Len(parts[w]) = Len(tokens[w])
         /\ \A k \in 1..Len(tokens[w]) :
              LET t == tokens[w][k]
              IN /\ (k = 1 /\ t \in DOMAIN InitialTable(fn)) => parts[w][k] = InitialTable(fn)[t]
                 /\ (k > 1 /\ t \in DOMAIN BaseTable(fn)) => parts[w][k] = BaseTable(fn)[t]

\* farsify("ii i"): U+0627 U+06CC and U+06CC in the first word, U+0627 U+06CC
\* again at the start of the second
C9_Witness ==
  /\ fn = "farsify" /\ pc = "done" /\ arg = S(<<"i", "i", " ", "i">>)
  /\ parts = <<<<<<1575, 1740>>, <<1740>>>>, <<<<1575, 1740>>>>>>
  /\ out = <<1575, 1740, 1740, 32, 1575, 1740>>


\* the vocabulary of a profile: the keys of its palatalized and base tables
ProfileKeys(f) ==
  CASE f = "farsify" -> DOMAIN FARSI_YOON \cup DOMAIN FARSI_BASE
    [] f = "arabify" -> DOMAIN ARABIC_YOON \cup DOMAIN ARABIC_BASE
    [] f = "hindify" -> DOMAIN HINDI_YOON \cup DOMAIN HINDI_BASE
    [] f = "cyrillicize" -> DOMAIN CYRILLIC_YOON \cup DOMAIN CYRILLIC_BASE

\* C24: in every profile a word that is a key of the profile's tables (wi is
\* a key of the Cyrillic, Farsi, Arabic and Hindi base tables) is recognized
\* as one token and gives one output item, and every token emitted for the
\* profile is a key of the profile's tables and gives exactly one item.
C24_ProfileVocabulary ==
  fn \in SCRIPT_FUNCTIONS =>
    \A w \in 1..Len(tokens) :
      /\ acc[w] \in ProfileKeys(fn) => (tokens[w] = <<acc[w]>> /\ Len(parts[w]) = 1)
      /\ \A k \in 1..Len(tokens[w]) : tokens[w][k] \in ProfileKeys(fn)
      /\ Len(parts[w]) = Len(tokens[w])

\* the per-word function of f
WordFunction(f, word) ==
  CASE f = "farsify" -> _farsify_word(word)
    [] f = "arabify" -> _arabify_word(word)
    [] f = "hindify" -> _hindify_word(word)
    [] f = "cyrillicize" -> _cyrillicize_word(word)

\* the number of spaces of a string
SpaceCount(s) == Cardinality({k \in 1..Len(s) : s[k] = 32})

\* C25: cyrillicize, farsify, arabify and hindify return the non-empty
\* per-word renderings of the name's words, in order, joined by exactly one
\* space: no leading, trailing or double space, and a word that renders
\* empty leaves no trace; every word cyrillicize returns has an upper-case
\* first letter and lower-case letters after it.
C25_VariantAssembly ==
  (fn \in SCRIPT_FUNCTIONS /\ pc = "done") =>
    LET words == Split(arg)
        rendered == [k \in 1..Len(words) |-> WordFunction(fn, words[k])]
        kept == SelectSeq(rendered, LAMBDA w : w # <<>>)
        lang_form(w) == IF fn = "cyrillicize" /\ text = "uk"
                        THEN ReplaceChar(ReplaceChar(w, 1101, 1077), 1080, 1110)
                        ELSE w
        res == Split(out)
    IN /\ res = [k \in 1..Len(kept) |-> lang_form(kept[k])]
       /\ Len(out) > 0 => out[1] # 32 /\ out[Len(out)] # 32
       /\ \A k \in 1..(Len(out) - 1) : ~(out[k] = 32 /\ out[k + 1] = 32)
       /\ SpaceCount(out) = IF kept = <<>> THEN 0 ELSE Len(kept) - 1
       /\ \A k \in 1..Len(out) : IsSpace(out[k]) => out[k] = 32
       /\ fn = "cyrillicize" =>
            \A k \in 1..Len(res) :
              /\ res[k][1] = UpperChar(res[k][1]) /\ res[k][1] # LowerChar(res[k][1])
              /\ \A j \in 2..Len(res[k]) :
                   res[k][j] = LowerChar(res[k][j]) /\ res[k][j] # UpperChar(res[k][j])

\* cyrillicize("x ka"): the first word renders empty and is left out, the
\* second is U+041A U+0430
C25_Witness ==
  /\ fn = "cyrillicize" /\ pc = "done"
  /\ arg = S(<<"x", " ", "k", "a">>)
  /\ acc = <<S(<<"x">>), S(<<"k", "a">>)>>
  /\ out = <<1050, 1072>>
\* ------------------------------------------------------------------------
\* Calls of decline_russian, decline_ukrainian and decline_lithuanian
\* ------------------------------------------------------------------------

MaxDeclineLen == 5

DECLINE_FUNCTIONS == {"decline_russian", "decline_ukrainian", "decline_lithuanian"}

\* a, n, K and the space for Lithuanian; U+0430, U+043D, U+043A and the space
\* for the Cyrillic functions
DeclineAlphabet(f) ==
  IF f = "decline_lithuanian" THEN {97, 110, 75, 32} ELSE {1072, 1085, 1082, 32}

DeclineWord(f, word) ==
  CASE f = "decline_russian" -> _decline_word_russian(word)
    [] f = "decline_ukrainian" -> _decline_word_ukrainian(word)
    [] f = "decline_lithuanian" -> _decline_word_lithuanian(word)

Decline(f, name) ==
  CASE f = "decline_russian" -> decline_russian(name)
    [] f = "decline_ukrainian" -> decline_ukrainian(name)
    [] f = "decline_lithuanian" -> decline_lithuanian(name)

\* a consonant (a velar for Russian) and a second consonant before each
\* ending of the rules, the bare endings, and the consonant + vowel words
\* that no rule matches
DeclineExamples(f) ==
  LET rules == CASE f = "decline_russian" -> RU_RULES \o << <<<<1072>>, <<>>>> >>
                 [] f = "decline_ukrainian" -> UK_RULES \o << <<<<1072>>, <<>>>> >>
                 [] f = "decline_lithuanian" -> LT_RULES_N \o LT_RULES_V
      stems == IF f = "decline_lithuanian" THEN {<<>>, <<75>>, <<83>>}
               ELSE {<<>>, <<1050>>, <<1082>>, <<1057>>}
      others == IF f = "decline_lithuanian" THEN {<<75>>, <<107, 107>>}
                ELSE {<<1082, 1080>>, <<1082, 1091>>, <<1082, 1086>>, <<1082, 1077>>,
                      <<1082, 1101>>, <<1082, 1110>>, <<1050>>}
  IN {st \o rules[k][1] : st \in stems, k \in 1..Len(rules)} \cup others

InitDecline ==
  /\ fn \in DECLINE_FUNCTIONS
  /\ arg \in Strings(DeclineAlphabet(fn), MaxDeclineLen) \cup DeclineExamples(fn)
  /\ pc = "call"
  /\ text = <<>> /\ i = 0 /\ tokens = <<>> /\ parts = <<>> /\ acc = <<>> /\ out = <<>>

\* the call: acc holds name.split() as it was, out the returned name
DeclineCall ==
  /\ fn \in DECLINE_FUNCTIONS /\ pc = "call"
  /\ acc' = Split(arg)
  /\ out' = Decline(fn, arg)
  /\ pc' = "done"
  /\ UNCHANGED <<fn, arg, text, i, tokens, parts>>

NextDecline == DeclineCall

SpecDecline == InitDecline /\ [][NextDecline]_vars

IsPrefix(p, s) == Len(p) <= Len(s) /\ SubSeq(s, 1, Len(p)) = p

\* C10: for every name of two or more words the declension functions return
\* a name whose words before the last are the input's words, in the same
\* order; only the last word may differ, and only in its ending.
C10_DeclensionLocality ==
  (fn \in DECLINE_FUNCTIONS /\ pc = "done" /\ Len(acc) >= 2) =>
    LET n == Len(acc)
        res == Split(out)
    IN /\ Len(res) = n
       /\ \A k \in 1..(n - 1) : res[k] = acc[k]
       /\ IsPrefix(JoinWith(<<32>>, SubSeq(acc, 1, n - 1)) \o <<32>>, out)
       /\ \E cut \in 0..2 : cut <= Len(acc[n]) /\ IsPrefix(DropLast(acc[n], cut), res[n])

\* decline_russian of U+043A U+0430, space, U+043D U+0430: the last word ends
\* in U+044B, the first is as it was
C10_Witness ==
  /\ fn = "decline_russian" /\ pc = "done"
  /\ arg = <<1082, 1072, 32, 1085, 1072>>
  /\ out = <<1082, 1072, 32, 1085, 1099>>


\* the ordered rule list a word is declined by: the vowel + n endings, then
\* the vowel endings (for Russian U+0430 gives U+0438 after a velar or hush
\* consonant, U+044B otherwise)
DeclensionRules(f, word) ==
  CASE f = "decline_lithuanian" -> LT_RULES_N \o LT_RULES_V
    [] f = "decline_ukrainian" -> UK_RULES \o << <<<<1072>>, <<1080>>>> >>
    [] f = "decline_russian" ->
         RU_RULES \o << <<<<1072>>,
                         IF Len(word) >= 2 /\ word[Len(word) - 1] \in RU_VELAR_HUSH
                         THEN <<1080>> ELSE <<1099>>>> >>

\* the vowels of each function's endings
DeclensionVowels(f) ==
  CASE f = "decline_lithuanian" -> {97, 105, 117, 101, 111}
    [] f = "decline_ukrainian" -> {1072, 1110, 1091, 1077, 1086}
    [] f = "decline_russian" -> {1072, 1080, 1091, 1101, 1086}

\* C23: the declension functions rewrite the last word by the first rule of
\* an ordered list whose ending is the word's ending: every two-letter ending
\* is a vowel followed by n and stands before every one-letter ending, only
\* the matched ending is replaced, and a word whose ending matches no rule
\* is returned as it is; a name without words, the empty name included, is
\* returned unchanged.
C23_FirstMatchingRule ==
  (fn \in DECLINE_FUNCTIONS /\ pc = "done") =>
    IF acc = <<>> THEN out = arg
    ELSE LET word == acc[Len(acc)]
             res == Split(out)
             rules == DeclensionRules(fn, word)
             probe == IF fn = "decline_lithuanian" THEN Lower(word) ELSE word
             hits == {k \in 1..Len(rules) : EndsWith(probe, rules[k][1])}
             n == IF fn = "decline_lithuanian" THEN 110 ELSE 1085
         IN /\ \A j, k \in 1..Len(rules) :
                 Len(rules[j][1]) > Len(rules[k][1]) => j < k
            /\ \A k \in 1..Len(rules) :
                 \/ Len(rules[k][1]) = 1
                 \/ /\ Len(rules[k][1]) = 2
                    /\ rules[k][1][1] \in DeclensionVowels(fn)
                    /\ rules[k][1][2] = n
            /\ Len(res) = Len(acc)
            /\ IF hits = {} THEN res[Len(res)] = word
               ELSE LET first == CHOOSE k \in hits : \A j \in hits : k <= j
                    IN res[Len(res)] =
                         SubSeq(word, 1, Len(word) - Len(rules[first][1])) \o rules[first][2]

\* decline_ukrainian of U+041A U+0456 U+043D: the two-letter ending U+0456
\* U+043D is rewritten to U+0456 U+043D U+0430
C23_Witness ==
  /\ fn = "decline_ukrainian" /\ pc = "done"
  /\ arg = <<1050, 1110, 1085>>
  /\ out = <<1050, 1110, 1085, 1072>>
\* ------------------------------------------------------------------------
\* Calls of format_label
\* ------------------------------------------------------------------------

MaxLabelLen == 3

\* i, k, a, an unmapped letter and the space
LABEL_ALPHABET == {Ord[c] : c \in {"i", "k", "a", "x", " "}}

\* the languages of ALL_LANGS and a code format_label does not know
LABEL_LANGS == {ALL_LANGS[k] : k \in 1..Len(ALL_LANGS)} \cup {"xx"}

\* the names of the documentation's examples: "Ise"
LABEL_EXAMPLES == {<<73>> \o S(<<"s", "e">>)}

\* arg = <<lang, name, is_grand>>
InitLabel ==
  /\ fn = "format_label"
  /\ arg \in LABEL_LANGS \X (LABEL_EXAMPLES \cup Strings(LABEL_ALPHABET, MaxLabelLen)) \X BOOLEAN
  /\ pc = "call"
  /\ text = <<>> /\ i = 0 /\ tokens = <<>> /\ parts = <<>> /\ acc = <<>> /\ out = <<>>

\* label = format_label(lang, name, is_grand)
FormatLabel ==
  /\ fn = "format_label" /\ pc = "call"
  /\ out' = format_label(arg[1], arg[2], arg[3])
  /\ pc' = "done"
  /\ UNCHANGED <<fn, arg, text, i, tokens, parts, acc>>

NextLabel == FormatLabel

SpecLabel == InitLabel /\ [][NextLabel]_vars

TRANSLITERATING_LANGS == {"ru", "uk", "fa", "ar", "arz", "hi"}

\* no word of the name has a token the tokenizer recognizes
NoTokenRecognized(name) ==
  \A k \in 1..Len(Split(name)) : word_tokens(Split(name)[k]) = <<>>

\* C4 (format_label): for lang ru, uk, fa, ar, arz or hi, a name in which no
\* token is recognized (the empty name included) yields an empty result, None
\* or the empty string, never a non-empty label string.
C4_EmptyResult ==
  (fn = "format_label" /\ pc = "done" /\ arg[1] \in TRANSLITERATING_LANGS
     /\ NoTokenRecognized(arg[2]))
    => out \in {<<>>, <<<<>>>>}


\* the name part of a uk label: what follows the prefix
UkNamePart(label, is_grand) ==
  From(label, Len(IF is_grand THEN UK_GRAND ELSE UK_PLAIN))

\* U+044D, U+042D, U+0438, U+0418: the letters the uk substitution removes,
\* in either case
UK_REPLACED == {1101, 1069, 1080, 1048}

\* C13: format_label("uk", "Ise") is the uk prefix followed by U+0406 U+0441
\* U+0435, and the name part of every uk label contains neither U+044D nor
\* U+0438 in either case.
C13_UkrainianSubstitution ==
  (fn = "format_label" /\ pc = "done" /\ arg[1] = "uk") =>
    /\ Len(out) = 1
    /\ (arg[2] = <<73>> \o S(<<"s", "e">>) /\ ~arg[3])
         => out[1] = UK_PLAIN \o <<1030, 1089, 1077>>
    /\ \A k \in 1..Len(UkNamePart(out[1], arg[3])) :
         UkNamePart(out[1], arg[3])[k] \notin UK_REPLACED
\* ------------------------------------------------------------------------
\* Calls of japanese_to_korean_hanja and japanese_to_chinese
\* ------------------------------------------------------------------------

MaxConvertLen == 3

\* U+306E (a kana of every table), U+30F4 (a kana of no table), U+30F6 and
\* U+4E18 (the two-character key), U+795E (an ideograph) and the letter a
CONVERT_ALPHABET == {12398, 12532, 12534, 19992, 31070, 97}

CONVERT_FUNCTIONS == {"japanese_to_korean_hanja", "japanese_to_chinese"}

\* text is ja_label, tokens is current_kana, acc is current_kanji, parts is
\* result_parts (result in japanese_to_chinese)
InitConvert ==
  /\ fn \in CONVERT_FUNCTIONS
  /\ arg \in Strings(CONVERT_ALPHABET, MaxConvertLen)
  /\ pc = "call"
  /\ text = arg
  /\ i = 0 /\ tokens = <<>> /\ parts = <<>> /\ acc = <<>> /\ out = <<>>

\* if not ja_label: return None
ConvertEnter ==
  /\ fn \in CONVERT_FUNCTIONS /\ pc = "call"
  /\ pc' = IF text = <<>> THEN "done" ELSE "loop"
  /\ UNCHANGED <<fn, arg, text, i, tokens, parts, acc, out>>

\* one iteration of `for char in ja_label` of japanese_to_korean_hanja
HanjaChar ==
  /\ fn = "japanese_to_korean_hanja" /\ pc = "loop" /\ i < Len(text)
  /\ LET char == text[i + 1]
     IN IF is_kana(char)
        THEN /\ parts' \in flush_kanji(parts, acc)
             /\ acc' = <<>>
             /\ tokens' = Append(tokens, char)
        ELSE IF is_ideograph(char)
        THEN /\ parts' = flush_kana(parts, tokens)
             /\ tokens' = <<>>
             /\ acc' = Append(acc, char)
        ELSE /\ \E flushed \in flush_kanji(parts, acc) : parts' = flush_kana(flushed, tokens)
             /\ acc' = <<>>
             /\ tokens' = <<>>
  /\ i' = i + 1
  /\ UNCHANGED <<fn, arg, pc, text, out>>

\* the two flushes after the loop
HanjaFlush ==
  /\ fn = "japanese_to_korean_hanja" /\ pc = "loop" /\ i >= Len(text)
  /\ \E flushed \in flush_kanji(parts, acc) : parts' = flush_kana(flushed, tokens)
  /\ pc' = "return"
  /\ UNCHANGED <<fn, arg, text, i, tokens, acc, out>>

\* result = "".join(result_parts) and the two returns
HanjaReturn ==
  /\ fn = "japanese_to_korean_hanja" /\ pc = "return"
  /\ out' = hanja_result(parts)
  /\ pc' = "done"
  /\ UNCHANGED <<fn, arg, text, i, tokens, parts, acc>>

\* one iteration of the while loop of japanese_to_chinese
ChineseChar ==
  /\ fn = "japanese_to_chinese" /\ pc = "loop" /\ i < Len(text)
  /\ i' = chinese_step(text, i, parts)[1]
  /\ parts' = chinese_step(text, i, parts)[2]
  /\ UNCHANGED <<fn, arg, pc, text, tokens, acc, out>>

\* intermediate = "".join(result); simplified = t2s.convert(intermediate);
\* return simplified if simplified else None
ChineseReturn ==
  /\ fn = "japanese_to_chinese" /\ pc = "loop" /\ i >= Len(text)
  /\ \E simplified \in t2s_convert(Concat(parts)) :
       out' = IF simplified # <<>> THEN <<simplified>> ELSE <<>>
  /\ pc' = "done"
  /\ UNCHANGED <<fn, arg, text, i, tokens, parts, acc>>

NextConvert ==
  \/ ConvertEnter \/ HanjaChar \/ HanjaFlush \/ HanjaReturn
  \/ ChineseChar \/ ChineseReturn

SpecConvert == InitConvert /\ [][NextConvert]_vars

\* C12: the value returned by japanese_to_korean_hanja is None or a string
\* without CJK ideographs, and the value returned by japanese_to_chinese is
\* None or a string without kana: a result still holding source-script
\* characters is returned as None.
C12_NoMixedScript ==
  (pc = "done" /\ out # <<>>) =>
    /\ fn = "japanese_to_korean_hanja" => \A k \in 1..Len(out[1]) : ~is_ideograph(out[1][k])
    /\ fn = "japanese_to_chinese" => \A k \in 1..Len(out[1]) : ~is_kana(out[1][k])


RECURSIVE RunsFrom(_, _, _, _)
\* the maximal runs of kana and of ideographs of s from index k on, in order
RunsFrom(s, k, run, runs) ==
  LET closed == IF run = <<>> THEN runs ELSE Append(runs, run)
  IN IF k > Len(s) THEN closed
     ELSE IF run # <<>> /\ ( \/ is_kana(s[k]) /\ is_kana(run[1])
                             \/ is_ideograph(s[k]) /\ is_ideograph(run[1]) )
          THEN RunsFrom(s, k + 1, Append(run, s[k]), runs)
          ELSE IF is_kana(s[k]) \/ is_ideograph(s[k])
               THEN RunsFrom(s, k + 1, <<s[k]>>, closed)
               ELSE RunsFrom(s, k + 1, <<>>, closed)

\* the maximal runs of kana and of ideographs of s
Runs(s) == RunsFrom(s, 1, <<>>, <<>>)

\* part is a conversion of run: koreanize of a kana run, a translation of an
\* ideograph run
ConvertedRun(part, run) ==
  IF is_kana(run[1]) THEN part = koreanize(run) ELSE part \in hanja_translate(run)

\* C29: in japanese_to_korean_hanja at most one of current_kana and
\* current_kanji is non-empty after each character; after i characters the
\* result parts are the conversions, in order, of the maximal kana and
\* ideograph runs that have ended, and the pending buffer is the run that has
\* not; at the end every maximal run has been converted exactly once, in
\* source order, and the other characters have left nothing.
C29_RunsConvertedOnce ==
  (fn = "japanese_to_korean_hanja" /\ pc \in {"loop", "return", "done"}) =>
    LET runs == Runs(SubSeq(text, 1, i))
        pending == tokens \o acc
        ended == IF pc = "loop" /\ pending # <<>> THEN Len(runs) - 1 ELSE Len(runs)
    IN /\ pc = "loop" => ~(tokens # <<>> /\ acc # <<>>)
       /\ (pc = "loop" /\ pending # <<>>) => (runs # <<>> /\ pending = runs[Len(runs)])
       /\ pc = "loop" =>
            /\ Len(parts) = ended
            /\ \A k \in 1..ended : ConvertedRun(parts[k], runs[k])
       /\ pc \in {"return", "done"} =>
            /\ i = Len(text)
            /\ Len(parts) = Len(runs)
            /\ \A k \in 1..Len(runs) : ConvertedRun(parts[k], runs[k])

\* the label U+306E U+795E U+306E: three runs, three parts
C29_Witness ==
  /\ fn = "japanese_to_korean_hanja" /\ pc = "done"
  /\ arg = <<12398, 31070, 12398>>
  /\ Len(parts) = 3
  /\ parts[1] = koreanize(<<12398>>) /\ parts[3] = koreanize(<<12398>>)
\* ------------------------------------------------------------------------
\* Calls of format_label for ru, uk, ar and arz, one pass per step
\* ------------------------------------------------------------------------

MaxPassLen == 3

\* k, a, g, i, e and the space
PASS_ALPHABET == {Ord[c] : c \in {"k", "a", "g", "i", "e", " "}}

\* the parent profiles and their sibling orthographies
PASS_LANGS == {"ru", "uk", "ar", "arz"}

\* result.replace(U+044D, U+0435).replace(U+0438, U+0456) of cyrillicize
uk_substitute(result) == ReplaceChar(ReplaceChar(result, 1101, 1077), 1080, 1110)

\* .replace(U+063A, U+062C) of format_label
arz_substitute(ar_name) == ReplaceChar(ar_name, 1594, 1580)

\* arg = <<lang, name, is_grand>>; text is result, cy_name or ar_name
InitPasses ==
  /\ fn = "format_label"
  /\ arg \in PASS_LANGS \X Strings(PASS_ALPHABET, MaxPassLen) \X BOOLEAN
  /\ pc = "transliterate"
  /\ text = <<>> /\ i = 0 /\ tokens = <<>> /\ parts = <<>> /\ acc = <<>> /\ out = <<>>

\* the words of cyrillicize joined (before its `if lang == "uk"`), or arabify(name)
PassTransliterate ==
  /\ fn = "format_label" /\ pc = "transliterate"
  /\ text' = IF arg[1] \in {"ru", "uk"} THEN cyrillicize(arg[2], "ru") ELSE arabify(arg[2])
  /\ pc' = IF arg[1] = "ar" THEN "format" ELSE "substitute"
  /\ UNCHANGED <<fn, arg, i, tokens, parts, acc, out>>

\* the `if lang == "uk"` of cyrillicize, which then returns, or the
\* .replace of the arz branch of format_label
PassSubstitute ==
  /\ fn = "format_label" /\ pc = "substitute"
  /\ text' = CASE arg[1] = "uk" -> uk_substitute(text)
               [] arg[1] = "arz" -> arz_substitute(text)
               [] OTHER -> text
  /\ pc' = IF arg[1] \in {"ru", "uk"} THEN "decline" ELSE "format"
  /\ UNCHANGED <<fn, arg, i, tokens, parts, acc, out>>

\* cy_name = decline_russian(cy_name) or decline_ukrainian(cy_name)
PassDecline ==
  /\ fn = "format_label" /\ pc = "decline"
  /\ text' = IF arg[1] = "ru" THEN decline_russian(text) ELSE decline_ukrainian(text)
  /\ pc' = "format"
  /\ UNCHANGED <<fn, arg, i, tokens, parts, acc, out>>

\* the return with the f-string
PassFormat ==
  /\ fn = "format_label" /\ pc = "format"
  /\ out' = CASE arg[1] = "ru" -> <<(IF arg[3] THEN RU_GRAND ELSE RU_PLAIN) \o text>>
              [] arg[1] = "uk" -> <<(IF arg[3] THEN UK_GRAND ELSE UK_PLAIN) \o text>>
              [] OTHER -> <<AR_PREFIX \o text \o (IF arg[3] THEN AR_GRAND_SUFFIX ELSE <<>>)>>
  /\ pc' = "done"
  /\ UNCHANGED <<fn, arg, text, i, tokens, parts, acc>>

NextPasses == PassTransliterate \/ PassSubstitute \/ PassDecline \/ PassFormat

SpecPasses == InitPasses /\ [][NextPasses]_vars

\* the passes compute format_label
PassesAreFormatLabel ==
  (fn = "format_label" /\ pc = "done") => out = format_label(arg[1], arg[2], arg[3])

SIBLING_LANGS == {"uk", "arz"}

\* the name as every pass but the substitution renders it
OtherPasses(lang, name) ==
  IF lang = "uk" THEN decline_ukrainian(cyrillicize(name, "ru")) ELSE arabify(name)

\* C14: in the uk and arz profiles the single-letter substitution is the
\* last pass over the name: the step after it is the formatting of the
\* label, never the declension, and the name that is formatted is the
\* substitution applied once to the result of all the other passes.
C14_SubstitutionLast ==
  [][ /\ (pc = "substitute" /\ arg[1] \in SIBLING_LANGS) => pc' = "format"
      /\ (pc = "format" /\ arg[1] = "uk") => text = uk_substitute(OtherPasses("uk", arg[2]))
      /\ (pc = "format" /\ arg[1] = "arz") => text = arz_substitute(OtherPasses("arz", arg[2]))
    ]_vars

\* ------------------------------------------------------------------------
\* A process making one transliteration call after the other
\* ------------------------------------------------------------------------

MaxCalls == 3

\* the module-level tables the two renderers read
RULE_TABLES ==
  [BASE_MAP |-> BASE_MAP, YOON_MAP |-> YOON_MAP,
   ROMAJI_TO_HANGUL |-> ROMAJI_TO_HANGUL, YOON_TO_HANGUL |-> YOON_TO_HANGUL]

\* tokiponize(text) reading the tables of the state
tokiponize_with(tables, s) ==
  LET toks == TokenizeLoop(kana_to_romaji(normalize(s)), 0, <<>>,
                           DOMAIN tables.YOON_MAP \cup DOMAIN tables.BASE_MAP)
      syllables == apply_dipthongs_to_syllables(
                     apply_h_position(Render(toks, tables.YOON_MAP, tables.BASE_MAP)))
      word == Capitalize(Concat(syllables))
  IN IF word # <<>> THEN <<word>> ELSE <<>>

\* koreanize(text) reading the tables of the state
koreanize_with(tables, s) ==
  LET toks == TokenizeLoop(kana_to_romaji(normalize(s)), 0, <<>>,
                           DOMAIN tables.YOON_TO_HANGUL \cup DOMAIN tables.ROMAJI_TO_HANGUL)
      hangul_parts == Render(toks, tables.YOON_TO_HANGUL, tables.ROMAJI_TO_HANGUL)
  IN Concat(merge_loop(hangul_parts, <<>>))

\* a call that deletes what it looked up: the entry of its argument is emptied
tables_after_call_consumed(tables, f, name) ==
  [tables EXCEPT
     !.BASE_MAP = [t \in DOMAIN @ |-> IF t = name THEN <<>> ELSE @[t]],
     !.ROMAJI_TO_HANGUL = [t \in DOMAIN @ |-> IF t = name THEN <<>> ELSE @[t]]]

\* the tables after a call of f(name): no statement of tokiponize, koreanize
\* or the functions they call assigns to a table or to one of its entries
tables_after_call(tables, f, name) == tables

\* the names passed by the process: ka, kya, hachi
CALL_NAMES ==
  {S(<<"k", "a">>), S(<<"k", "y", "a">>), S(<<"h", "a", "c", "h", "i">>)}

CALL_FUNCTIONS == {"tokiponize", "koreanize"}

\* parts holds the rule tables, acc the calls that have returned, each as
\* <<function, argument, result>>
InitCalls ==
  /\ pc = "idle"
  /\ fn = "" /\ arg = <<>>
  /\ parts = RULE_TABLES
  /\ acc = <<>>
  /\ text = <<>> /\ i = 0 /\ tokens = <<>> /\ out = <<>>

\* the process calls f(name)
CallEnter ==
  /\ pc = "idle" /\ Len(acc) < MaxCalls
  /\ \E f \in CALL_FUNCTIONS, name \in CALL_NAMES : fn' = f /\ arg' = name
  /\ pc' = "running"
  /\ UNCHANGED <<text, i, tokens, parts, acc, out>>

\* the call returns
CallReturn ==
  /\ pc = "running"
  /\ out' = IF fn = "tokiponize" THEN tokiponize_with(parts, arg)
            ELSE koreanize_with(parts, arg)
  /\ acc' = Append(acc, <<fn, arg, out'>>)
  /\ parts' = tables_after_call(parts, fn, arg)
  /\ pc' = "idle"
  /\ UNCHANGED <<fn, arg, text, i, tokens>>

NextCalls == CallEnter \/ CallReturn

SpecCalls == InitCalls /\ [][NextCalls]_vars

\* with the tables as loaded the calls are tokiponize and koreanize
CallsAreTheFunctions ==
  \A k \in 1..Len(acc) :
    acc[k][3] = IF acc[k][1] = "tokiponize" THEN tokiponize(acc[k][2])
                ELSE koreanize(acc[k][2])

MaxRows == 2

\* the entity identifiers Q1 and Q2
ROW_QIDS == {<<81, 49>>, <<81, 50>>}

\* the labels a, " and a"a
ROW_LABELS == {<<97>>, <<QUOTE>>, <<97, QUOTE, 97>>}

\* the comments of rows made from the labels "Kuil a" and "a"
ROW_COMMENTS == {comment_id(<<75>> \o S(<<"u", "i", "l", " ", "a">>)), comment_ja(<<97>>)}

WRITERS == {"write_quickstatements", "generate_korean_quickstatements.main",
            "generate_multilang_quickstatements.main"}

\* the languages a writer writes a file for
WriterLangs(writer) ==
  CASE writer = "write_quickstatements" -> {"tok"}
    [] writer = "generate_korean_quickstatements.main" -> {"ko"}
    [] OTHER -> {ALL_LANGS[k] : k \in 1..Len(ALL_LANGS)}

\* the rows a writer is given: only those of the Korean generator have a comment
WriterRows(writer) ==
  [qid : ROW_QIDS, label : ROW_LABELS,
   comment : IF writer = "generate_korean_quickstatements.main" THEN ROW_COMMENTS ELSE {<<>>}]

\* arg = <<lang, rows>>; i rows are written, out is the content of the file
InitWrite ==
  /\ fn \in WRITERS
  /\ \E lang \in WriterLangs(fn) : \E n \in 0..MaxRows :
       \E rows \in [1..n -> WriterRows(fn)] : arg = <<lang, rows>>
  /\ pc = "open"
  /\ text = <<>> /\ i = 0 /\ tokens = <<>> /\ parts = <<>> /\ acc = <<>> /\ out = <<>>

\* with open(filepath, "w", encoding="utf-8", newline="\n") as f
WriteOpen ==
  /\ pc = "open"
  /\ out' = <<>> /\ i' = 0
  /\ pc' = "rows"
  /\ UNCHANGED <<fn, arg, text, tokens, parts, acc>>

\* one iteration of `for row in lang_rows` of write_quickstatements
WriteTokRow ==
  /\ fn = "write_quickstatements" /\ pc = "rows" /\ i < Len(arg[2])
  /\ out' = write_tok_row(out, arg[1], arg[2][i + 1])
  /\ i' = i + 1
  /\ UNCHANGED <<fn, arg, pc, text, tokens, parts, acc>>

\* one iteration of `for row in rows` of generate_korean_quickstatements.main
WriteKoRow ==
  /\ fn = "generate_korean_quickstatements.main" /\ pc = "rows" /\ i < Len(arg[2])
  /\ out' = write_ko_row(out, arg[2][i + 1])
  /\ i' = i + 1
  /\ UNCHANGED <<fn, arg, pc, text, tokens, parts, acc>>

\* one iteration of `for row in rows` of generate_multilang_quickstatements.main
WriteLangRow ==
  /\ fn = "generate_multilang_quickstatements.main" /\ pc = "rows" /\ i < Len(arg[2])
  /\ out' = write_lang_row(out, arg[1], arg[2][i + 1])
  /\ i' = i + 1
  /\ UNCHANGED <<fn, arg, pc, text, tokens, parts, acc>>

\* the end of the with block
WriteClose ==
  /\ pc = "rows" /\ i >= Len(arg[2])
  /\ pc' = "done"
  /\ UNCHANGED <<fn, arg, text, i, tokens, parts, acc, out>>

NextWrite == WriteOpen \/ WriteTokRow \/ WriteKoRow \/ WriteLangRow \/ WriteClose

SpecWrite == InitWrite /\ [][NextWrite]_vars

RECURSIVE SplitAt(_, _)
\* the pieces of s between the occurrences of the character sep
SplitAt(s, sep) ==
  IF \A k \in 1..Len(s) : s[k] # sep THEN <<s>>
  ELSE LET p == CHOOSE k \in 1..Len(s) : s[k] = sep /\ \A j \in 1..(k - 1) : s[j] # sep
       IN <<SubSeq(s, 1, p - 1)>> \o SplitAt(SubSeq(s, p + 1, Len(s)), sep)

\* the lines of a file whose every line ends with \n
FileLines(f) ==
  LET pieces == SplitAt(f, NEWLINE)
  IN SubSeq(pieces, 1, Len(pieces) - 1)

\* a quoted label: between two double quotes, double quotes come in pairs
IsQuotedLabel(field) ==
  /\ Len(field) >= 2 /\ field[1] = QUOTE /\ field[Len(field)] = QUOTE
  /\ LET inner == SubSeq(field, 2, Len(field) - 1)
         unpaired == Replace(inner, <<QUOTE, QUOTE>>, <<>>)
     IN \A k \in 1..Len(unpaired) : unpaired[k] # QUOTE

\* a record: identifier, L and the language code, quoted label
IsRecord(line, lang) ==
  LET fields == SplitAt(line, TAB)
  IN /\ Len(fields) = 3
     /\ fields[1] \in ROW_QIDS
     /\ fields[2] = <<76>> \o LANG_CODE[lang]
     /\ IsQuotedLabel(fields[3])

\* C19: what is written to a QuickStatements file ends with \n, and every
\* line of it is one record of three tab-separated fields: the entity
\* identifier, L followed by the language code, and the label in double
\* quotes with every internal double quote doubled.
C19_RecordLines ==
  (fn \in WRITERS /\ pc \in {"rows", "done"}) =>
    /\ out # <<>> => out[Len(out)] = NEWLINE
    /\ \A k \in 1..Len(FileLines(out)) : IsRecord(FileLines(out)[k], arg[1])

\* the same for the files of write_quickstatements and of the
\* multi-language generator alone
RecordLinesButKo ==
  fn # "generate_korean_quickstatements.main" => C19_RecordLines

\* ------------------------------------------------------------------------
\* The main loops of the Toki Pona, Korean and multi-language generators
\* over the bindings
\* ------------------------------------------------------------------------

MaxBindings == 2

\* the identifiers Q1 and Q2
BINDING_QIDS == {<<81, 49>>, <<81, 50>>}

LABEL_KUIL_ISE == <<75>> \o S(<<"u", "i", "l", " ">>) \o <<73>> \o S(<<"s", "e">>)   \* "Kuil Ise"
LABEL_MALDYKLA_ISE == <<77>> \o S(<<"a", "l", "d", "y", "k", "l", "a", " ">>) \o <<73>> \o S(<<"s", "e">>)   \* "Maldykla Ise"
LABEL_ISE == <<73>> \o S(<<"s", "e">>)   \* "Ise"
LABEL_KANJI == <<31070>>   \* U+795E

\* the bindings of the Toki Pona query for items without a tok label: an
\* item has one binding for each of its id, ru, uk and lt labels
TOK_BINDINGS ==
  [qid : BINDING_QIDS, srcLang : {"id"}, srcLabel : {LABEL_KUIL_ISE, LABEL_ISE}]
    \cup [qid : BINDING_QIDS, srcLang : {"lt"}, srcLabel : {LABEL_MALDYKLA_ISE}]

\* the bindings of SPARQL_ID: Indonesian label and optional Japanese label
KO_ID_BINDINGS ==
  [qid : BINDING_QIDS, idLabel : {LABEL_KUIL_ISE, LABEL_ISE}, jaLabel : {<<>>, LABEL_KANJI}]

\* the bindings of SPARQL_JA
KO_JA_BINDINGS == [qid : BINDING_QIDS, jaLabel : {LABEL_KANJI}]

\* the sequences of at most MaxBindings elements of a set
Bindings(set) == UNION {[1..n -> set] : n \in 0..MaxBindings}

\* the bindings of make_sparql(lang): items with an Indonesian label
ML_BINDINGS == [qid : BINDING_QIDS, idLabel : {LABEL_KUIL_ISE, LABEL_ISE}]

DEDUP_MAINS ==
  {"fetch_shrines_tokiponize.main", "generate_korean_quickstatements.main",
   "generate_multilang_quickstatements.main"}

\* arg is results, or <<id_results, ja_results>>; parts is seen_qids (then
\* seen_rows; seen in the multi-language generator), tokens is deduped (the
\* languages still to do in the multi-language generator, where text is
\* lang), acc is rows, and out is skipped in the Korean and multi-language
\* generators
InitDedup ==
  /\ fn \in DEDUP_MAINS
  /\ CASE fn = "fetch_shrines_tokiponize.main" ->
            arg \in Bindings(TOK_BINDINGS) /\ pc = "dedup" /\ tokens = <<>> /\ out = <<>>
       [] fn = "generate_korean_quickstatements.main" ->
            /\ arg \in Bindings(KO_ID_BINDINGS) \X Bindings(KO_JA_BINDINGS)
            /\ pc = "path1" /\ tokens = <<>> /\ out = 0
       [] fn = "generate_multilang_quickstatements.main" ->
            arg = <<>> /\ pc = "lang" /\ tokens = ALL_LANGS /\ out = 0
  /\ parts = {} /\ acc = <<>> /\ i = 0
  /\ text = <<>>

\* one iteration of the first `for binding in results`
TokDedup ==
  /\ fn = "fetch_shrines_tokiponize.main" /\ pc = "dedup" /\ i < Len(arg)
  /\ LET binding == arg[i + 1]
     IN IF dedup_key(binding) \notin parts
        THEN parts' = parts \cup {dedup_key(binding)} /\ tokens' = Append(tokens, binding)
        ELSE UNCHANGED <<parts, tokens>>
  /\ i' = i + 1
  /\ UNCHANGED <<fn, arg, pc, text, acc, out>>

\* rows = []; seen_rows = set(); skipped = 0
TokRowsInit ==
  /\ fn = "fetch_shrines_tokiponize.main" /\ pc = "dedup" /\ i >= Len(arg)
  /\ parts' = {} /\ acc' = <<>> /\ i' = 0
  /\ pc' = "process"
  /\ UNCHANGED <<fn, arg, text, tokens, out>>

\* one iteration of `for binding in deduped`
TokProcess ==
  /\ fn = "fetch_shrines_tokiponize.main" /\ pc = "process" /\ i < Len(tokens)
  /\ parts' = tok_process(tokens[i + 1], parts, acc)[1]
  /\ acc' = tok_process(tokens[i + 1], parts, acc)[2]
  /\ i' = i + 1
  /\ UNCHANGED <<fn, arg, pc, text, tokens, out>>

\* qs_rows = the rows without a tok label, handed to write_quickstatements
TokWrite ==
  /\ fn = "fetch_shrines_tokiponize.main" /\ pc = "process" /\ i >= Len(tokens)
  /\ pc' = "done"
  /\ UNCHANGED <<fn, arg, text, i, tokens, parts, acc, out>>

\* one iteration of `for binding in id_results`
KoPath1 ==
  /\ fn = "generate_korean_quickstatements.main" /\ pc = "path1" /\ i < Len(arg[1])
  /\ LET binding == arg[1][i + 1]
     IN IF binding.qid \in parts
        THEN UNCHANGED <<parts, acc, out>>
        ELSE /\ parts' = parts \cup {binding.qid}
             /\ \E st \in ko_path1(binding, acc, out) : acc' = st[1] /\ out' = st[2]
  /\ i' = i + 1
  /\ UNCHANGED <<fn, arg, pc, text, tokens>>

\* ja_results = run_sparql(SPARQL_JA, ...)
KoSecondQuery ==
  /\ fn = "generate_korean_quickstatements.main" /\ pc = "path1" /\ i >= Len(arg[1])
  /\ i' = 0
  /\ pc' = "path2"
  /\ UNCHANGED <<fn, arg, text, tokens, parts, acc, out>>

\* one iteration of `for binding in ja_results`
KoPath2 ==
  /\ fn = "generate_korean_quickstatements.main" /\ pc = "path2" /\ i < Len(arg[2])
  /\ LET binding == arg[2][i + 1]
     IN IF binding.qid \in parts
        THEN UNCHANGED <<parts, acc, out>>
        ELSE /\ parts' = parts \cup {binding.qid}
             /\ \E st \in ko_path2(binding, acc, out) : acc' = st[1] /\ out' = st[2]
  /\ i' = i + 1
  /\ UNCHANGED <<fn, arg, pc, text, tokens>>

\* the rows are written
KoWrite ==
  /\ fn = "generate_korean_quickstatements.main" /\ pc = "path2" /\ i >= Len(arg[2])
  /\ pc' = "done"
  /\ UNCHANGED <<fn, arg, text, i, tokens, parts, acc, out>>

\* the head of `for lang in ALL_LANGS`: results = run_sparql(...);
\* seen = set(); rows = []; skipped = 0
MlQuery ==
  /\ fn = "generate_multilang_quickstatements.main" /\ pc = "lang" /\ tokens # <<>>
  /\ text' = Head(tokens)
  /\ tokens' = Tail(tokens)
  /\ arg' \in Bindings(ML_BINDINGS)
  /\ parts' = {} /\ acc' = <<>> /\ out' = 0 /\ i' = 0
  /\ pc' = "bindings"
  /\ UNCHANGED fn

\* one iteration of `for binding in results`
MlBinding ==
  /\ fn = "generate_multilang_quickstatements.main" /\ pc = "bindings" /\ i < Len(arg)
  /\ LET binding == arg[i + 1]
     IN IF binding.qid \in parts
        THEN UNCHANGED <<parts, acc, out>>
        ELSE /\ parts' = parts \cup {binding.qid}
             /\ acc' = ml_binding(text, binding, acc, out)[1]
             /\ out' = ml_binding(text, binding, acc, out)[2]
  /\ i' = i + 1
  /\ UNCHANGED <<fn, arg, pc, text, tokens>>

\* the file of lang is written and the language loop goes on
MlWrite ==
  /\ fn = "generate_multilang_quickstatements.main" /\ pc = "bindings" /\ i >= Len(arg)
  /\ pc' = "lang"
  /\ UNCHANGED <<fn, arg, text, i, tokens, parts, acc, out>>

\* the language loop has ended
MlDone ==
  /\ fn = "generate_multilang_quickstatements.main" /\ pc = "lang" /\ tokens = <<>>
  /\ pc' = "done"
  /\ UNCHANGED <<fn, arg, text, i, tokens, parts, acc, out>>

NextDedup ==
  \/ TokDedup \/ TokRowsInit \/ TokProcess \/ TokWrite
  \/ KoPath1 \/ KoSecondQuery \/ KoPath2 \/ KoWrite
  \/ MlQuery \/ MlBinding \/ MlWrite \/ MlDone

SpecDedup == InitDedup /\ [][NextDedup]_vars

\* no two rows have the same identifier
OneRowPerQid(rows) ==
  \A j, k \in 1..Len(rows) : j # k => rows[j].qid # rows[k].qid

\* no two rows have the same identifier and the same label
NoRepeatedRecord(rows) ==
  \A j, k \in 1..Len(rows) : j # k => rows[j] # rows[k]

\* the Korean generator alone: one row per identifier across both paths
KoOneRowPerQid ==
  fn = "generate_korean_quickstatements.main" => OneRowPerQid(acc)

\* C20: for any sequence of bindings the rows written by the Korean
\* generator hold at most one row per identifier, across both paths, and the
\* rows written by the Toki Pona generator hold no two rows with the same
\* identifier and the same label.
C20_Deduplicated ==
  /\ fn = "generate_korean_quickstatements.main" => OneRowPerQid(acc)
  /\ fn = "fetch_shrines_tokiponize.main" => NoRepeatedRecord(acc)


\* the identifiers of the rows
RowQids(rows) == {rows[k].qid : k \in 1..Len(rows)}

\* C30: in the Korean generator (across both paths) and in the
\* multi-language generator (for each language) every identifier seen so far
\* has exactly one row or has been counted as skipped exactly once: the rows
\* have distinct identifiers, all of them seen, skipped is the number of seen
\* identifiers without a row, and rows plus skipped is the number of distinct
\* identifiers processed.
C30_Accounting ==
  (fn \in {"generate_korean_quickstatements.main", "generate_multilang_quickstatements.main"}) =>
    /\ OneRowPerQid(acc)
    /\ RowQids(acc) \subseteq parts
    /\ out = Cardinality(parts \ RowQids(acc))
    /\ Len(acc) + out = Cardinality(parts)

\* the Korean generator has ended with one row and one skipped identifier
C30_Witness ==
  /\ fn = "generate_korean_quickstatements.main" /\ pc = "done"
  /\ Len(acc) = 1 /\ out = 1
  /\ Cardinality(parts) = 2

\* ------------------------------------------------------------------------
\* Calls of apply_dipthongs_to_syllables, one loop iteration per step
\* ------------------------------------------------------------------------

MaxSyllables == 3

\* the empty syllable, bare vowels, consonant + vowel, a bare consonant and
\* vowel-initial syllables of two letters
DIPTHONG_SYLLABLES ==
  {<<>>, S(<<"a">>), S(<<"i">>), S(<<"u">>), S(<<"k", "a">>), S(<<"n">>),
   S(<<"a", "n">>), S(<<"i", "a">>)}

InitDipthong ==
  /\ fn = "apply_dipthongs_to_syllables"
  /\ arg \in Strings(DIPTHONG_SYLLABLES, MaxSyllables)
  /\ pc = "check"
  /\ text = <<>> /\ i = 0 /\ tokens = <<>> /\ parts = <<>> /\ acc = <<>> /\ out = <<>>

\* if not syllables: return syllables
DipEmpty ==
  /\ fn = "apply_dipthongs_to_syllables" /\ pc = "check"
  /\ arg = <<>>
  /\ out' = arg
  /\ pc' = "done"
  /\ UNCHANGED <<fn, arg, text, i, tokens, parts, acc>>

\* result = [syllables[0]], kept in acc; the loop starts at syllables[1]
DipFirst ==
  /\ fn = "apply_dipthongs_to_syllables" /\ pc = "check"
  /\ arg # <<>>
  /\ acc' = <<arg[1]>>
  /\ i' = 1
  /\ pc' = "loop"
  /\ UNCHANGED <<fn, arg, text, tokens, parts, out>>

\* one iteration of `for syl in syllables[1:]`, i syllables done
DipIteration ==
  /\ fn = "apply_dipthongs_to_syllables" /\ pc = "loop"
  /\ i < Len(arg)
  /\ acc' = dipthong_step(acc, arg[i + 1])
  /\ i' = i + 1
  /\ UNCHANGED <<fn, arg, pc, text, tokens, parts, out>>

\* return result
DipReturn ==
  /\ fn = "apply_dipthongs_to_syllables" /\ pc = "loop"
  /\ i >= Len(arg)
  /\ out' = acc
  /\ pc' = "done"
  /\ UNCHANGED <<fn, arg, text, i, tokens, parts, acc>>

NextDipthong == DipEmpty \/ DipFirst \/ DipIteration \/ DipReturn

SpecDipthong == InitDipthong /\ [][NextDipthong]_vars

\* the step-by-step call returns what the function returns
DipthongIsTheFunction ==
  (fn = "apply_dipthongs_to_syllables" /\ pc = "done") =>
    out = apply_dipthongs_to_syllables(arg)

\* C22: apply_dipthongs_to_syllables is one left-to-right pass: every
\* iteration takes the next syllable and never goes back; when the last
\* letter of the most recent output syllable and the first letter of the
\* next syllable are both vowels, the final vowel of the output syllable is
\* replaced by the DIPTHONGS entry of the pair, and a one-vowel next syllable
\* adds nothing, while a longer one adds its remainder after the first vowel
\* as a new syllable; in every other case the next syllable is appended
\* unchanged.
C22_DipthongPass ==
  [][(fn = "apply_dipthongs_to_syllables" /\ pc = "loop" /\ i < Len(arg)) =>
       LET syl == arg[i + 1]
           n == Len(acc)
           prev == acc[n]
       IN /\ i' = i + 1
          /\ SubSeq(acc', 1, n - 1) = SubSeq(acc, 1, n - 1)
          /\ IF prev # <<>> /\ syl # <<>> /\ prev[Len(prev)] \in VOWELS /\ syl[1] \in VOWELS
             THEN /\ acc'[n] = SubSeq(prev, 1, Len(prev) - 1)
                                 \o DIPTHONGS[<<prev[Len(prev)], syl[1]>>]
                  /\ IF Len(syl) = 1 THEN Len(acc') = n
                     ELSE Len(acc') = n + 1 /\ acc'[n + 1] = Tail(syl)
             ELSE acc' = Append(acc, syl)]_vars

\* the pass has replaced the seam of ka + an and appended the remainder n
C22_Witness ==
  /\ fn = "apply_dipthongs_to_syllables" /\ pc = "loop" /\ i = 2
  /\ arg[1] = S(<<"k", "a">>) /\ arg[2] = S(<<"a", "n">>)
  /\ acc = <<S(<<"k", "a">>), S(<<"n">>)>>

\* ------------------------------------------------------------------------
\* The scanning loops of kana_to_romaji, tokenize_romaji,
\* tokenize_romaji_korean and japanese_to_chinese, one iteration per step
\* ------------------------------------------------------------------------

MaxScanLen == 3

SCAN_FUNCTIONS ==
  {"kana_to_romaji", "tokenize_romaji", "tokenize_romaji_korean", "japanese_to_chinese"}

ScanAlphabet(f) ==
  CASE f = "kana_to_romaji" -> KANA_ALPHABET
    [] f = "japanese_to_chinese" -> CONVERT_ALPHABET
    [] OTHER -> TOKEN_ALPHABET

\* text is the scanned string, i the position index, parts the value the
\* loop builds (out, tokens, result); acc lists the positions at which the
\* iterations so far started
InitScan ==
  /\ fn \in SCAN_FUNCTIONS
  /\ arg \in Strings(ScanAlphabet(fn), MaxScanLen)
  /\ pc = "call"
  /\ text = arg
  /\ i = 0 /\ tokens = <<>> /\ parts = <<>> /\ acc = <<>> /\ out = <<>>

\* the statements before the loop: katakana_to_hiragana in kana_to_romaji,
\* `if not ja_label: return None` in japanese_to_chinese, and i = 0
ScanEnter ==
  /\ fn \in SCAN_FUNCTIONS /\ pc = "call"
  /\ text' = IF fn = "kana_to_romaji" THEN katakana_to_hiragana(text) ELSE text
  /\ pc' = IF fn = "japanese_to_chinese" /\ text = <<>> THEN "done" ELSE "loop"
  /\ i' = 0
  /\ UNCHANGED <<fn, arg, tokens, parts, acc, out>>

\* one iteration of the loop of f: <<i, value built>> after it
ScanStep(f, s, pos, res) ==
  CASE f = "kana_to_romaji" -> kana_step(s, pos, res)
    [] f = "japanese_to_chinese" -> chinese_step(s, pos, res)
    [] OTHER -> TokenizeStep(s, pos, res, Vocabulary(f))

\* one iteration of `while i < len(text)`
ScanIteration ==
  /\ fn \in SCAN_FUNCTIONS /\ pc = "loop"
  /\ i < Len(text)
  /\ i' = ScanStep(fn, text, i, parts)[1]
  /\ parts' = ScanStep(fn, text, i, parts)[2]
  /\ acc' = Append(acc, i)
  /\ UNCHANGED <<fn, arg, pc, text, tokens, out>>

\* the loop ends and the function returns; japanese_to_chinese returns
\* what t2s.convert makes of the joined result, or None
ScanReturn ==
  /\ fn \in SCAN_FUNCTIONS /\ pc = "loop"
  /\ i >= Len(text)
  /\ IF fn = "japanese_to_chinese"
     THEN \E simplified \in t2s_convert(Concat(parts)) :
            out' = IF simplified # <<>> THEN <<simplified>> ELSE <<>>
     ELSE out' = parts
  /\ pc' = "done"
  /\ UNCHANGED <<fn, arg, text, i, tokens, parts, acc>>

NextScan == ScanEnter \/ ScanIteration \/ ScanReturn

SpecScan == InitScan /\ [][NextScan]_vars

\* a call, once started, runs its statements one after the other
SpecScanFair == SpecScan /\ WF_vars(NextScan)

\* the step-by-step call returns what the function returns
ScanIsTheFunction ==
  pc = "done" =>
    CASE fn = "kana_to_romaji" -> out = kana_to_romaji(arg)
      [] fn = "tokenize_romaji" -> out = tokenize_romaji(arg)
      [] fn = "tokenize_romaji_korean" -> out = tokenize_romaji_korean(arg)
      [] OTHER -> TRUE

\* C26: the scanning loops of kana_to_romaji, tokenize_romaji,
\* tokenize_romaji_korean and japanese_to_chinese terminate on every input:
\* each iteration moves the position index forward by at least 1, a loop
\* makes at most len(input) iterations, and every call returns.
C26_ScanTerminates ==
  /\ [][(pc = "loop" /\ i < Len(text)) => i' >= i + 1]_vars
  /\ [](/\ Len(acc) <= Len(arg)
        /\ \A j, k \in 1..Len(acc) : j < k => acc[j] < acc[k])
  /\ <>(pc = "done")

\* tokenize_romaji_korean has scanned "nya" in one iteration that moved the
\* index from 0 to 3, and has returned
C26_Witness ==
  /\ fn = "tokenize_romaji_korean" /\ pc = "done"
  /\ arg = S(<<"n", "y", "a">>)
  /\ acc = <<0>> /\ i = 3
  /\ out = <<S(<<"n", "y", "a">>)>>
====
